---- MODULE Spec2Model ----
(***************************************************************************)
(* Run-Route-Planner: the /api/route handler (loop optimizer, scoring,     *)
(* instruction simplifier) and the map UI's generateRoute.                 *)
(*                                                                         *)
(* Two versions of the handler are in the repository: the scoring handler  *)
(* (9 trials, tolerance 0.5 km, 2 or 3 waypoints, simplified steps) and    *)
(* the earlier one in src/app/api/route/route.ts (4 trials, tolerance      *)
(* 0.35 km, 2 waypoints, no steps).  The variable `handler` says which one *)
(* serves the request.                                                     *)
(*                                                                         *)
(* Units.  Lengths are integers in units of 1/640 m (UnitsPerMeter), so    *)
(* that 12 %, 22 % and 45 % of a target, five halvings of the bracket and  *)
(* the leg scales (multiples of 1/20) are exact.  Durations are integers   *)
(* in ticks of 1/16000 s, so that metres x 0.36 s is exact.  Scores are    *)
(* lengths (km-equivalents in the code).  Bearings are in 1/14 degree.     *)
(* Math.random() returns q/140 with q in 0..139.                           *)
(***************************************************************************)
EXTENDS Integers, Sequences, FiniteSets, TLC

UnitsPerMeter == 32 * 20

TicksPerSecond == 16 * 1000

RandDen == 7 * 20

M(m) == m * UnitsPerMeter

Sec(s) == s * TicksPerSecond

Abs(x) == IF x < 0 THEN 0 - x ELSE x

Null == <<"null">>

\* null where the other values are records (a route, a response).
NullRec == [null |-> TRUE]

Infinity == 2 * 1000000000

(***************************************************************************)
(* Text.  A string is a sequence of one-character strings.                 *)
(***************************************************************************)
UpperChars == <<"A","B","C","D","E","F","G","H","I","J","K","L","M",
                "N","O","P","Q","R","S","T","U","V","W","X","Y","Z">>

LowerChars == <<"a","b","c","d","e","f","g","h","i","j","k","l","m",
                "n","o","p","q","r","s","t","u","v","w","x","y","z">>

LowerChar(c) ==
    IF \E i \in 1..26 : UpperChars[i] = c
    THEN LowerChars[CHOOSE i \in 1..26 : UpperChars[i] = c]
    ELSE c

toLowerCase(s) == [i \in 1..Len(s) |-> LowerChar(s[i])]

RECURSIVE trimStart(_)
trimStart(s) ==
    IF s # <<>> /\ Head(s) = " " THEN trimStart(Tail(s)) ELSE s

RECURSIVE trimEnd(_)
trimEnd(s) ==
    IF s # <<>> /\ s[Len(s)] = " " THEN trimEnd(SubSeq(s, 1, Len(s) - 1)) ELSE s

trim(s) == trimEnd(trimStart(s))

includes(s, part) ==
    \E i \in 0..(Len(s) - Len(part)) : SubSeq(s, i + 1, i + Len(part)) = part

(***************************************************************************)
(* String literals of the code and of the modelled provider responses.     *)
(***************************************************************************)
S_turn == <<"t","u","r","n">>

S_fork == <<"f","o","r","k">>

S_merge == <<"m","e","r","g","e">>

S_depart == <<"d","e","p","a","r","t">>

S_arrive == <<"a","r","r","i","v","e">>

S_roundabout == <<"r","o","u","n","d","a","b","o","u","t">>

S_rotary == <<"r","o","t","a","r","y">>

S_roundabout_turn == <<"r","o","u","n","d","a","b","o","u","t"," ","t","u","r","n">>

S_end_of_road == <<"e","n","d"," ","o","f"," ","r","o","a","d">>

S_continue == <<"c","o","n","t","i","n","u","e">>

S_new_name == <<"n","e","w"," ","n","a","m","e">>

S_left == <<"l","e","f","t">>

S_right == <<"r","i","g","h","t">>

S_slight_left == <<"s","l","i","g","h","t"," ","l","e","f","t">>

S_straight == <<"s","t","r","a","i","g","h","t">>

S_Main_Street == <<"M","a","i","n"," ","S","t","r","e","e","t">>

S_Oak_Avenue == <<"O","a","k"," ","A","v","e","n","u","e">>

S_Seaside_Path == <<"S","e","a","s","i","d","e"," ","P","a","t","h">>

S_Turn_left == <<"T","u","r","n"," ","l","e","f","t">>

S_Turn_right == <<"T","u","r","n"," ","r","i","g","h","t">>

S_Head_north == <<"H","e","a","d"," ","n","o","r","t","h">>

S_Continue == <<"C","o","n","t","i","n","u","e">>

S_Continue_dot == <<"C","o","n","t","i","n","u","e",".">>

S_Continue_straight == <<"C","o","n","t","i","n","u","e"," ","s","t","r","a","i","g","h","t",".">>

S_Turn_left_onto_Main_Street == <<"T","u","r","n"," ","l","e","f","t"," ","o","n","t","o"," ","M","a","i","n"," ","S","t","r","e","e","t">>

S_Continue_on_the_walkway == <<"C","o","n","t","i","n","u","e"," ","o","n"," ","t","h","e"," ","w","a","l","k","w","a","y">>

S_arrived == <<"Y","o","u"," ","h","a","v","e"," ","a","r","r","i","v","e","d"," ","a","t"," ","y","o","u","r"," ","d","e","s","t","i","n","a","t","i","o","n",".">>

S_Turn_ == <<"T","u","r","n"," ">>

S_Keep_ == <<"K","e","e","p"," ">>

S_Head_ == <<"H","e","a","d"," ">>

S__onto_ == <<" ","o","n","t","o"," ">>

S__on_ == <<" ","o","n"," ">>

S_dot == <<".">>

genericTerms == <<<<"w","a","l","k","w","a","y">>, <<"c","r","o","s","s","w","a","l","k">>, <<"s","i","d","e","w","a","l","k">>, <<"p","a","t","h">>, <<"t","r","a","i","l">>, <<"f","o","o","t","w","a","y">>, <<"p","e","d","e","s","t","r","i","a","n">>, <<"s","t","e","p","s">>, <<"s","t","a","i","r">>, <<"b","r","i","d","g","e">>>>

(***************************************************************************)
(* JavaScript values.  null is Null; an optional field that is absent is   *)
(* missing from the record's domain.                                       *)
(***************************************************************************)
Falsy(s) == s = Null \/ s = <<>>

Field(rec, f, default) == IF f \in DOMAIN rec THEN rec[f] ELSE default

metersToKm(m) == m

(***************************************************************************)
(* The routing provider's answers.                                         *)
(***************************************************************************)
Maneuver(instruction, type, modifier) ==
    [instruction |-> instruction, type |-> type, modifier |-> modifier,
     location |-> <<0, 0>>]

MapboxStep(name, distance, duration, maneuver) ==
    [name |-> name, distance |-> distance, duration |-> duration, maneuver |-> maneuver]

\* A leg along a named road with one named turn.
LegNamed ==
    [steps |-> <<
        MapboxStep(S_Oak_Avenue, M(1000), Sec(720), Maneuver(S_Head_north, S_depart, S_straight)),
        MapboxStep(S_Main_Street, M(1400), Sec(1008),
                   Maneuver(S_Turn_left_onto_Main_Street, S_turn, S_left)),
        [distance |-> 0, duration |-> 0, maneuver |-> Maneuver(S_arrived, S_arrive, S_left)]
    >>]

\* A leg with a short left/right zig-zag on a generic path.
LegZigZag ==
    [steps |-> <<
        MapboxStep(S_Main_Street, M(2330), Sec(1678), Maneuver(S_Head_north, S_depart, S_straight)),
        MapboxStep(S_Seaside_Path, M(40), Sec(29), Maneuver(S_Turn_left, S_turn, S_left)),
        MapboxStep(S_Seaside_Path, M(30), Sec(22), Maneuver(S_Turn_right, S_turn, S_right)),
        MapboxStep(S_Seaside_Path, M(200), Sec(144),
                   Maneuver(S_Continue_on_the_walkway, S_continue, S_straight)),
        [distance |-> 0, duration |-> 0, maneuver |-> Maneuver(S_arrived, S_arrive, S_right)]
    >>]

LegPlain ==
    [steps |-> <<
        MapboxStep(S_Main_Street, M(2400), Sec(1728), Maneuver(S_Head_north, S_depart, S_straight)),
        [distance |-> 0, duration |-> 0, maneuver |-> Maneuver(S_arrived, S_arrive, S_left)]
    >>]

\* A loop around a block, and an out-and-back on one street.
LineLoop == << <<0, 0>>, <<100, 0>>, <<100, 100>>, <<0, 100>>, <<0, 0>> >>

LineOutAndBack == << <<0, 0>>, <<100, 0>>, <<0, 0>> >>

LineStraight == << <<0, 0>>, <<100, 0>>, <<200, 0>> >>

MapboxRoute(distance, duration, coordinates, legs) ==
    [distance |-> distance, duration |-> duration,
     geometry |-> [coordinates |-> coordinates], legs |-> legs]

\* The provider's payloads are kept once, by name: a route names its line
\* and its legs.
Lines == [n \in {"loop", "outAndBack", "straight"} |->
            CASE n = "loop" -> LineLoop
              [] n = "outAndBack" -> LineOutAndBack
              [] n = "straight" -> LineStraight]

Legs == [n \in {"plain", "named", "zigzag"} |->
            CASE n = "plain" -> LegPlain
              [] n = "named" -> LegNamed
              [] n = "zigzag" -> LegZigZag]

\* The routes the provider may answer with.
Routes ==
    { MapboxRoute(M(4800), Sec(3456), "loop", <<"plain", "named">>),
      MapboxRoute(M(5000), Sec(3600), "outAndBack", <<"plain", "zigzag">>),
      MapboxRoute(M(3000), Sec(2160), "straight", <<"plain">>),
      MapboxRoute(M(7000), Sec(5040), "loop", <<"plain", "plain">>) }

(***************************************************************************)
(* Overlap penalty.  A coordinate is <<lng, lat>> in units of 0.00001      *)
(* degree.  The modelled polylines are axis-aligned and one unit is one    *)
(* metre on either axis, so the great-circle distance of two consecutive   *)
(* points is the sum of the coordinate differences, in metres.             *)
(***************************************************************************)
distanceMeters(a, b) == Abs(b[1] - a[1]) + Abs(b[2] - a[2])

SnapPrecision == 20

\* Math.round(value / precision) * precision, printed with five decimals:
\* the printed number is the integer of 0.00001-degree units.
snapCoord(value, precision) == ((2 * value + precision) \div (2 * precision)) * precision

\* The order of two keys "x,y": any strict total order gives the same
\* result of segmentKey; the model orders by x, then y.
KeyLess(aKey, bKey) ==
    \/ aKey[1] < bKey[1]
    \/ aKey[1] = bKey[1] /\ aKey[2] < bKey[2]

\* A key that keeps the direction of the segment.
segmentKeyDirected(a, b) ==
    <<<<snapCoord(a[1], SnapPrecision), snapCoord(a[2], SnapPrecision)>>,
      <<snapCoord(b[1], SnapPrecision), snapCoord(b[2], SnapPrecision)>>>>

segmentKey(a, b) ==
    LET aKey == <<snapCoord(a[1], SnapPrecision), snapCoord(a[2], SnapPrecision)>>
        bKey == <<snapCoord(b[1], SnapPrecision), snapCoord(b[2], SnapPrecision)>>
    IN  IF KeyLess(aKey, bKey) THEN <<aKey, bKey>> ELSE <<bKey, aKey>>

\* The loop of getRouteOverlapPenaltyKm from index i on:
\* acc = [seen, total, overlap].
RECURSIVE OverlapLoop(_, _, _)
OverlapLoop(coords, i, acc) ==
    IF i > Len(coords) THEN acc
    ELSE LET prev == coords[i - 1]
             curr == coords[i]
             segmentMeters == distanceMeters(prev, curr)
             key == segmentKey(prev, curr)
         IN  IF segmentMeters < 5 THEN OverlapLoop(coords, i + 1, acc)
             ELSE OverlapLoop(coords, i + 1,
                    [seen    |-> acc.seen \cup {key},
                     total   |-> acc.total + segmentMeters,
                     overlap |-> IF key \in acc.seen
                                 THEN acc.overlap + segmentMeters
                                 ELSE acc.overlap])

\* An overlap penalty that looks at polylines of four points or more only.
OverlapPenaltyFromFour(coords) ==
    LET acc == OverlapLoop(coords, 2, [seen |-> {}, total |-> 0, overlap |-> 0])
    IN  IF Len(coords) < 4 THEN 0
        ELSE IF acc.total <= 0 THEN 0
        ELSE (acc.overlap * M(1200)) \div acc.total

\* getRouteOverlapPenaltyKm from `if (coords.length < 3)` on, for the
\* coordinates of the route.
OverlapPenalty(coords) ==
    LET acc == OverlapLoop(coords, 2, [seen |-> {}, total |-> 0, overlap |-> 0])
    IN  IF Len(coords) < 3 THEN 0
        ELSE IF acc.total <= 0 THEN 0
        ELSE (acc.overlap * M(1200)) \div acc.total

getRouteOverlapPenaltyKm(route) ==
    LET coords == IF "geometry" \in DOMAIN route /\ "coordinates" \in DOMAIN route.geometry
                  THEN Lines[route.geometry.coordinates] ELSE <<>>
    IN  OverlapPenalty(coords)

(***************************************************************************)
(* Instruction wording.                                                    *)
(***************************************************************************)
\* A test that compares the name with the terms as it is written.
isGenericPathNameCaseSensitive(name) ==
    IF Falsy(name) THEN TRUE
    ELSE LET normalized == trim(name)
         IN  IF normalized = <<>> THEN TRUE
             ELSE \E k \in 1..Len(genericTerms) : includes(normalized, genericTerms[k])

isGenericPathName(name) ==
    IF Falsy(name) THEN TRUE
    ELSE LET normalized == toLowerCase(trim(name))
         IN  IF normalized = <<>> THEN TRUE
             ELSE \E k \in 1..Len(genericTerms) : includes(normalized, genericTerms[k])

toSentence(text) ==
    LET trimmed == trim(text)
    IN  IF trimmed = <<>> THEN S_Continue_dot
        ELSE IF trimmed[Len(trimmed)] \in {".", "!", "?"} THEN trimmed
        ELSE trimmed \o S_dot

formatInstruction(step) ==
    LET maneuver == Field(step, "maneuver", [none |-> TRUE])
        maneuverType == Field(maneuver, "type", Null)
        modifier == Field(maneuver, "modifier", Null)
        stepName == IF "name" \in DOMAIN step /\ trim(step.name) # <<>>
                    THEN trim(step.name) ELSE Null
        raw == IF "instruction" \in DOMAIN maneuver THEN trim(maneuver.instruction) ELSE <<>>
        hasSpecificName == ~Falsy(stepName) /\ ~isGenericPathName(stepName)
    IN  IF maneuverType = S_arrive THEN S_arrived
        ELSE IF hasSpecificName /\ maneuverType = S_turn /\ ~Falsy(modifier)
             THEN S_Turn_ \o modifier \o S__onto_ \o stepName \o S_dot
        ELSE IF hasSpecificName /\ maneuverType \in {S_fork, S_merge} /\ ~Falsy(modifier)
             THEN S_Keep_ \o modifier \o S__onto_ \o stepName \o S_dot
        ELSE IF hasSpecificName /\ maneuverType = S_depart /\ ~Falsy(modifier)
             THEN S_Head_ \o modifier \o S__on_ \o stepName \o S_dot
        ELSE IF hasSpecificName /\ raw # <<>>
                /\ ~includes(toLowerCase(raw), toLowerCase(stepName))
             THEN toSentence(raw \o S__onto_ \o stepName)
        ELSE toSentence(IF raw # <<>> THEN raw ELSE S_Continue)

isCoreManeuverType(type) ==
    IF Falsy(type) THEN FALSE
    ELSE type \in {S_depart, S_arrive, S_turn, S_fork, S_merge, S_roundabout,
                   S_rotary, S_roundabout_turn, S_end_of_road}

(***************************************************************************)
(* Instruction simplifier.                                                 *)
(***************************************************************************)
\* A filter that hides unnamed turns under 20 m only.
KeepStepShortTurns(steps, idx) ==
    LET step == steps[idx]
        isFirst == idx = 1
        isLast == idx = Len(steps)
        isDepart == step.type = S_depart
        isArrive == step.type = S_arrive
        isCore == isCoreManeuverType(step.type)
        hasSpecificName == ~Falsy(step.name) /\ ~isGenericPathName(step.name)
        hasGenericName == ~Falsy(step.name) /\ isGenericPathName(step.name)
    IN  IF isFirst \/ isLast THEN TRUE
        ELSE IF isDepart \/ isArrive THEN FALSE
        ELSE IF step.distance_m < M(8) THEN FALSE
        ELSE IF hasSpecificName /\ isCore /\ step.distance_m >= M(20) THEN TRUE
        ELSE IF hasGenericName /\ step.distance_m < M(140) THEN FALSE
        ELSE IF ~hasSpecificName /\ isCore /\ step.distance_m < M(20) THEN FALSE
        ELSE IF ~isCore /\ step.distance_m < M(220) THEN FALSE
        ELSE TRUE

\* A filter that hides non-core steps up to 220 m.
KeepStepInclusive(steps, idx) ==
    LET step == steps[idx]
        isFirst == idx = 1
        isLast == idx = Len(steps)
        isDepart == step.type = S_depart
        isArrive == step.type = S_arrive
        isCore == isCoreManeuverType(step.type)
        hasSpecificName == ~Falsy(step.name) /\ ~isGenericPathName(step.name)
        hasGenericName == ~Falsy(step.name) /\ isGenericPathName(step.name)
    IN  IF isFirst \/ isLast THEN TRUE
        ELSE IF isDepart \/ isArrive THEN FALSE
        ELSE IF step.distance_m < M(8) THEN FALSE
        ELSE IF hasSpecificName /\ isCore /\ step.distance_m >= M(20) THEN TRUE
        ELSE IF hasGenericName /\ step.distance_m < M(140) THEN FALSE
        ELSE IF ~hasSpecificName /\ isCore /\ step.distance_m < M(45) THEN FALSE
        ELSE IF ~isCore /\ step.distance_m <= M(220) THEN FALSE
        ELSE TRUE

\* The predicate of steps.filter(...) for the step at index idx (1-based).
\* A filter that hides named core maneuvers under 20 m.
KeepStepNamedFrom20(steps, idx) ==
    LET step == steps[idx]
        isFirst == idx = 1
        isLast == idx = Len(steps)
        isDepart == step.type = S_depart
        isArrive == step.type = S_arrive
        isCore == isCoreManeuverType(step.type)
        hasSpecificName == ~Falsy(step.name) /\ ~isGenericPathName(step.name)
        hasGenericName == ~Falsy(step.name) /\ isGenericPathName(step.name)
    IN  IF isFirst \/ isLast THEN TRUE
        ELSE IF isDepart \/ isArrive THEN FALSE
        ELSE IF step.distance_m < M(8) THEN FALSE
        ELSE IF hasSpecificName /\ isCore THEN step.distance_m >= M(20)
        ELSE IF hasGenericName /\ step.distance_m < M(140) THEN FALSE
        ELSE IF ~hasSpecificName /\ isCore /\ step.distance_m < M(45) THEN FALSE
        ELSE IF ~isCore /\ step.distance_m < M(220) THEN FALSE
        ELSE TRUE

KeepStep(steps, idx) ==
    LET step == steps[idx]
        isFirst == idx = 1
        isLast == idx = Len(steps)
        isDepart == step.type = S_depart
        isArrive == step.type = S_arrive
        isCore == isCoreManeuverType(step.type)
        hasSpecificName == ~Falsy(step.name) /\ ~isGenericPathName(step.name)
        hasGenericName == ~Falsy(step.name) /\ isGenericPathName(step.name)
    IN  IF isFirst \/ isLast THEN TRUE
        ELSE IF isDepart \/ isArrive THEN FALSE
        ELSE IF step.distance_m < M(8) THEN FALSE
        ELSE IF hasSpecificName /\ isCore /\ step.distance_m >= M(20) THEN TRUE
        ELSE IF hasGenericName /\ step.distance_m < M(140) THEN FALSE
        ELSE IF ~hasSpecificName /\ isCore /\ step.distance_m < M(45) THEN FALSE
        ELSE IF ~isCore /\ step.distance_m < M(220) THEN FALSE
        ELSE TRUE

RECURSIVE FilterFrom(_, _)
FilterFrom(steps, idx) ==
    IF idx > Len(steps) THEN <<>>
    ELSE (IF KeepStep(steps, idx) THEN <<steps[idx]>> ELSE <<>>)
         \o FilterFrom(steps, idx + 1)

filtered(steps) == FilterFrom(steps, 1)

Direction(modifier) ==
    IF modifier = Null THEN Null
    ELSE IF includes(modifier, S_left) THEN S_left
    ELSE IF includes(modifier, S_right) THEN S_right
    ELSE Null

SameWording(lastMerged, step) ==
    /\ toLowerCase(trim(lastMerged.instruction)) = toLowerCase(trim(step.instruction))
    /\ lastMerged.type = step.type
    /\ lastMerged.modifier = step.modifier

isOppositeZigZag(previousStep, step) ==
    LET prevDir == Direction(previousStep.modifier)
        currDir == Direction(step.modifier)
    IN  /\ previousStep.type = S_turn
        /\ step.type = S_turn
        /\ prevDir # Null
        /\ currDir # Null
        /\ prevDir # currDir
        /\ previousStep.distance_m <= M(70)
        /\ step.distance_m <= M(70)
        /\ isGenericPathName(previousStep.name)
        /\ isGenericPathName(step.name)

(***************************************************************************)
(* Step objects.  A RouteStep is a mutable object and an array holds       *)
(* references to objects: objs is the sequence of the objects that exist,  *)
(* a reference is an index into it, an array is a sequence of references.  *)
(***************************************************************************)
Refs(steps) == [i \in 1..Len(steps) |-> i]

Values(objs, arr) == [i \in 1..Len(arr) |-> objs[arr[i]]]

\* steps.filter(...) on references: the kept elements are the same objects.
RECURSIVE FilterRefs(_, _, _)
FilterRefs(objs, arr, idx) ==
    IF idx > Len(arr) THEN <<>>
    ELSE (IF KeepStep(Values(objs, arr), idx) THEN <<arr[idx]>> ELSE <<>>)
         \o FilterRefs(objs, arr, idx + 1)

\* merged.push(step) without the spread: the array holds the input's object.
MergeStepShared(acc, ref) ==
    LET step == acc.objs[ref]
        n == Len(acc.merged)
        lastRef == acc.merged[n]
        last == acc.objs[lastRef]
    IN  IF n > 0 /\ SameWording(last, step)
        THEN [acc EXCEPT !.objs[lastRef] =
                 [last EXCEPT !.distance_m = @ + step.distance_m,
                              !.duration_s = @ + step.duration_s]]
        ELSE IF n > 0 /\ isOppositeZigZag(last, step)
        THEN [acc EXCEPT !.objs[lastRef] =
                 [last EXCEPT !.distance_m = @ + step.distance_m,
                              !.duration_s = @ + step.duration_s,
                              !.instruction = S_Continue_straight,
                              !.type = Null,
                              !.modifier = Null,
                              !.name = Null]]
        ELSE [acc EXCEPT !.merged = Append(@, ref)]

\* A merge that adds up the distances only.
MergeStepNoDuration(acc, ref) ==
    LET step == acc.objs[ref]
        n == Len(acc.merged)
        lastRef == acc.merged[n]
        last == acc.objs[lastRef]
    IN  IF n > 0 /\ SameWording(last, step)
        THEN [acc EXCEPT !.objs[lastRef] =
                 [last EXCEPT !.distance_m = @ + step.distance_m]]
        ELSE IF n > 0 /\ isOppositeZigZag(last, step)
        THEN [acc EXCEPT !.objs[lastRef] =
                 [last EXCEPT !.distance_m = @ + step.distance_m,
                              !.duration_s = @ + step.duration_s,
                              !.instruction = S_Continue_straight,
                              !.type = Null,
                              !.modifier = Null,
                              !.name = Null]]
        ELSE [objs |-> Append(acc.objs, step),
              merged |-> Append(acc.merged, Len(acc.objs) + 1)]

\* A zig-zag merge that keeps the first turn's type, modifier and name.
MergeStepKeepsTurn(acc, ref) ==
    LET step == acc.objs[ref]
        n == Len(acc.merged)
        lastRef == acc.merged[n]
        last == acc.objs[lastRef]
    IN  IF n > 0 /\ SameWording(last, step)
        THEN [acc EXCEPT !.objs[lastRef] =
                 [last EXCEPT !.distance_m = @ + step.distance_m,
                              !.duration_s = @ + step.duration_s]]
        ELSE IF n > 0 /\ isOppositeZigZag(last, step)
        THEN [acc EXCEPT !.objs[lastRef] =
                 [last EXCEPT !.distance_m = @ + step.distance_m,
                              !.duration_s = @ + step.duration_s,
                              !.instruction = S_Continue_straight]]
        ELSE [objs |-> Append(acc.objs, step),
              merged |-> Append(acc.merged, Len(acc.objs) + 1)]

\* A zig-zag merge that leaves the second turn's length out.
MergeStepFoldsWithoutLength(acc, ref) ==
    LET step == acc.objs[ref]
        n == Len(acc.merged)
        lastRef == acc.merged[n]
        last == acc.objs[lastRef]
    IN  IF n > 0 /\ SameWording(last, step)
        THEN [acc EXCEPT !.objs[lastRef] =
                 [last EXCEPT !.distance_m = @ + step.distance_m,
                              !.duration_s = @ + step.duration_s]]
        ELSE IF n > 0 /\ isOppositeZigZag(last, step)
        THEN [acc EXCEPT !.objs[lastRef] =
                 [last EXCEPT !.instruction = S_Continue_straight,
                              !.type = Null,
                              !.modifier = Null,
                              !.name = Null]]
        ELSE [objs |-> Append(acc.objs, step),
              merged |-> Append(acc.merged, Len(acc.objs) + 1)]

\* A zig-zag merge that leaves a turn in the direction of the second turn.
MergeStepCascades(acc, ref) ==
    LET step == acc.objs[ref]
        n == Len(acc.merged)
        lastRef == acc.merged[n]
        last == acc.objs[lastRef]
    IN  IF n > 0 /\ SameWording(last, step)
        THEN [acc EXCEPT !.objs[lastRef] =
                 [last EXCEPT !.distance_m = @ + step.distance_m,
                              !.duration_s = @ + step.duration_s]]
        ELSE IF n > 0 /\ isOppositeZigZag(last, step)
        THEN [acc EXCEPT !.objs[lastRef] =
                 [last EXCEPT !.distance_m = @ + step.distance_m,
                              !.duration_s = @ + step.duration_s,
                              !.instruction = S_Continue_straight,
                              !.modifier = step.modifier,
                              !.name = Null]]
        ELSE [objs |-> Append(acc.objs, step),
              merged |-> Append(acc.merged, Len(acc.objs) + 1)]

\* One iteration of the merge loop for the object ref of filtered:
\* acc = [objs, merged], merged the array emitted so far.  lastMerged and
\* previousStep are the object merged ends with and are written in place;
\* merged.push({ ...step }) creates a new object.
MergeStep(acc, ref) ==
    LET step == acc.objs[ref]
        n == Len(acc.merged)
        lastRef == acc.merged[n]
        last == acc.objs[lastRef]
    IN  IF n > 0 /\ SameWording(last, step)
        THEN [acc EXCEPT !.objs[lastRef] =
                 [last EXCEPT !.distance_m = @ + step.distance_m,
                              !.duration_s = @ + step.duration_s]]
        ELSE IF n > 0 /\ isOppositeZigZag(last, step)
        THEN [acc EXCEPT !.objs[lastRef] =
                 [last EXCEPT !.distance_m = @ + step.distance_m,
                              !.duration_s = @ + step.duration_s,
                              !.instruction = S_Continue_straight,
                              !.type = Null,
                              !.modifier = Null,
                              !.name = Null]]
        ELSE [objs |-> Append(acc.objs, step),
              merged |-> Append(acc.merged, Len(acc.objs) + 1)]

RECURSIVE MergeLoop(_, _)
MergeLoop(acc, rest) ==
    IF rest = <<>> THEN acc
    ELSE MergeLoop(MergeStep(acc, Head(rest)), Tail(rest))

\* The simplifier without the shortcut for short lists.
simplifyRouteStepsAlways(objs, steps) ==
    LET acc == MergeLoop([objs |-> objs, merged |-> <<>>], FilterRefs(objs, steps, 1))
    IN  [objs |-> acc.objs, steps |-> steps, result |-> acc.merged]

\* A call of simplifyRouteSteps with the array steps: the objects after the
\* call, the input array and the returned array.
simplifyRouteSteps(objs, steps) ==
    IF Len(steps) <= 2 THEN [objs |-> objs, steps |-> steps, result |-> steps]
    ELSE LET acc == MergeLoop([objs |-> objs, merged |-> <<>>],
                              FilterRefs(objs, steps, 1))
         IN  [objs |-> acc.objs, steps |-> steps, result |-> acc.merged]

\* The returned list, by value, for a freshly built input list.
Simplified(steps) ==
    LET call == simplifyRouteSteps(steps, Refs(steps))
    IN  Values(call.objs, call.result)

(***************************************************************************)
(* Scoring.                                                                *)
(***************************************************************************)
\* legs.flatMap((leg) => leg.steps || [])
RECURSIVE LegSteps(_)
LegSteps(legs) ==
    IF legs = <<>> THEN <<>>
    ELSE Field(Legs[Head(legs)], "steps", <<>>) \o LegSteps(Tail(legs))

RouteSteps(route) ==
    IF "legs" \in DOMAIN route THEN LegSteps(route.legs) ELSE <<>>

\* A test that takes the type 'turn' only.
isTurnLikeExact(step) ==
    Field(Field(step, "maneuver", [none |-> TRUE]), "type", <<>>) = S_turn

isTurnLike(step) ==
    LET maneuverType == Field(Field(step, "maneuver", [none |-> TRUE]), "type", <<>>)
    IN  \/ includes(maneuverType, S_turn)
        \/ maneuverType = S_fork
        \/ maneuverType = S_roundabout

RECURSIVE TotalTurnCount(_)
TotalTurnCount(steps) ==
    IF steps = <<>> THEN 0
    ELSE (IF isTurnLike(Head(steps)) THEN 1 ELSE 0) + TotalTurnCount(Tail(steps))

RECURSIVE ShortTurnCount(_)
ShortTurnCount(steps) ==
    IF steps = <<>> THEN 0
    ELSE (IF isTurnLike(Head(steps)) /\ Field(Head(steps), "distance", 0) < M(45)
          THEN 1 ELSE 0) + ShortTurnCount(Tail(steps))

\* getRouteSmoothnessPenaltyKm from the loop on, for the steps of the route.
SmoothnessPenalty(steps) ==
    LET shortTurnCount == ShortTurnCount(steps)
        totalTurnCount == TotalTurnCount(steps)
    IN  shortTurnCount * M(120) + totalTurnCount * M(15)

getRouteSmoothnessPenaltyKm(route) == SmoothnessPenalty(RouteSteps(route))

scoreRoute(route, targetKm) ==
    LET routeKm == metersToKm(Field(route, "distance", 0))
        distanceDiffKm == Abs(routeKm - targetKm)
        smoothnessPenaltyKm == getRouteSmoothnessPenaltyKm(route)
        overlapPenaltyKm == getRouteOverlapPenaltyKm(route)
    IN  [routeKm |-> routeKm,
         distanceDiffKm |-> distanceDiffKm,
         smoothnessPenaltyKm |-> smoothnessPenaltyKm,
         overlapPenaltyKm |-> overlapPenaltyKm,
         score |-> distanceDiffKm + smoothnessPenaltyKm + overlapPenaltyKm]

(***************************************************************************)
(* Numbers of the query string.  A query value is absent or a text; a      *)
(* parsed number is finite (a fraction num/den) or not (NaN, Infinity).    *)
(***************************************************************************)
Absent == [present |-> FALSE]

Text(t) == [present |-> TRUE, text |-> t]

NaN == [fin |-> FALSE]

Num(n, d) == [fin |-> TRUE, num |-> n, den |-> d]

\* The decimal literals the modelled requests use, with their values.
Literals ==
    [t \in {"5", "50", "500", "0.1", "0.2", "49.2827", "-123.1207"} |->
        CASE t = "5" -> Num(5, 1)
          [] t = "50" -> Num(50, 1)
          [] t = "500" -> Num(500, 1)
          [] t = "0.1" -> Num(1, 10)
          [] t = "0.2" -> Num(2, 10)
          [] t = "49.2827" -> Num(492827, 10000)
          [] t = "-123.1207" -> Num(0 - 1231207, 10000)]

\* Number(searchParams.get(name)): get gives null for an absent parameter and
\* Number(null) = 0, Number("") = 0; a text that is no numeric literal gives
\* NaN and "Infinity" gives Infinity.
Number(raw) ==
    IF ~raw.present THEN Num(0, 1)
    ELSE IF raw.text = "" THEN Num(0, 1)
    ELSE IF raw.text \in DOMAIN Literals THEN Literals[raw.text]
    ELSE NaN

isFinite(n) == n.fin

\* A finite number in the model's integer units (unit = units per 1; the
\* denominators of the literals divide the units).
InUnits(n, unit) == n.num * (unit \div n.den)

KmUnit == 1000 * UnitsPerMeter

DegUnit == 10 * 1000

(***************************************************************************)
(* The handlers' constants.                                                *)
(***************************************************************************)
RUN_PACE_MIN_PER_KM == 6

bearingTries == 9

bearingTriesV1 == 4

tuneSteps == 6

toleranceKm == M(500)

toleranceKmV1 == M(350)

Tries(h) == IF h = "v2" THEN bearingTries ELSE bearingTriesV1

Tolerance(h) == IF h = "v2" THEN toleranceKm ELSE toleranceKmV1

\* distance_km * RUN_PACE_MIN_PER_KM * 60, in ticks, of a distance in units.
PaceDuration(distance) ==
    distance * ((RUN_PACE_MIN_PER_KM * 60 * TicksPerSecond) \div KmUnit)

(***************************************************************************)
(* Requests.                                                               *)
(***************************************************************************)
FALLBACK_CENTER == [lng |-> Text("-123.1207"), lat |-> Text("49.2827")]

\* The distances the user may have typed into the map UI.
UiKms == {"0.1", "5", "500"}

\* Requests sent to the endpoint by other clients than the map UI.
HttpRequests ==
    { [lat |-> Text("49.2827"), lng |-> Text("-123.1207"), km |-> Text("500")],
      [lat |-> Absent, lng |-> Text("-123.1207"), km |-> Absent],
      [lat |-> Text("abc"), lng |-> Text("-123.1207"), km |-> Text("5")],
      [lat |-> Text("49.2827"), lng |-> Text("-123.1207"), km |-> Text("Infinity")] }

\* The values Math.random() takes in the model, as q of q/140, per use.
RandBearing == {100}

RandOffset == {60}

RandWaypoints == {0, 120}

RandScale == {0, 120}

(***************************************************************************)
(* Geometry of a candidate.  A point is the start or the projection of the *)
(* start along a bearing over a distance; a projection over distance 0 is  *)
(* the start itself.                                                       *)
(***************************************************************************)
destinationPoint(lat, lng, bearingDeg, distanceKm) ==
    IF distanceKm = 0 THEN [lat |-> lat, lng |-> lng, off |-> <<>>]
    ELSE [lat |-> lat, lng |-> lng, off |-> <<bearingDeg, distanceKm>>]

Scaled(leg, scale20) == (leg \div 20) * scale20

\* A candidate that is not closed: the start is not appended.
CandidateOpen(h, start, sh, leg) ==
    LET wp1 == destinationPoint(start.lat, start.lng, sh.b1, leg)
        wp2 == destinationPoint(start.lat, start.lng, sh.b2,
                                IF h = "v2" THEN Scaled(leg, sh.leg2Scale) ELSE leg)
    IN  IF h = "v2" /\ sh.useThreeWaypoints
        THEN <<start, wp1, wp2,
               destinationPoint(start.lat, start.lng, sh.b3, Scaled(leg, sh.leg3Scale))>>
        ELSE <<start, wp1, wp2>>

\* The coordinates submitted for the shape sh with leg length leg.
Candidate(h, start, sh, leg) ==
    LET wp1 == destinationPoint(start.lat, start.lng, sh.b1, leg)
        wp2 == destinationPoint(start.lat, start.lng, sh.b2,
                                IF h = "v2" THEN Scaled(leg, sh.leg2Scale) ELSE leg)
    IN  IF h = "v2" /\ sh.useThreeWaypoints
        THEN <<start, wp1, wp2,
               destinationPoint(start.lat, start.lng, sh.b3, Scaled(leg, sh.leg3Scale)),
               start>>
        ELSE <<start, wp1, wp2, start>>

NoShape == [b1 |-> 0, b2 |-> 0, useThreeWaypoints |-> FALSE, b3 |-> 0,
            leg2Scale |-> 20, leg3Scale |-> 20]

(***************************************************************************)
(* State.                                                                  *)
(***************************************************************************)
VARIABLES
    handler,      \* which version of the handler serves: "v1" or "v2"
    token,        \* MAPBOX_SECRET_TOKEN is set
    client,       \* the scenario's client: "ui" (the map UI) or "http" (any other)
    provider,     \* the scenario's routing provider: "any" route, a "pair" of
                  \* routes, or a stub, "sum" or "sum13"
    counting,     \* the scenario records the number of routing calls in calls
    pc,           \* "idle", "recv", "trial", "step", "await", "done", "settled"
    origin,       \* "ui" or "http": who sent the request
    params,       \* the query parameters lat, lng, km
    start,        \* the start point
    targetKm,     \* the target
    t,            \* trial index
    s,            \* inner iteration index
    shape,        \* the trial's random shape
    low,
    high,
    leg,
    best,         \* best route so far, or NullRec
    bestScore,    \* its score (v1: its distance error), or Infinity
    inflight,     \* coordinates of the routing call in flight, or <<>>
    response,     \* the handler's response, or NullRec
    km,           \* UI state: the distance typed
    loading,      \* UI state
    routeError,   \* UI state
    uiRoute,      \* UI state `route`: the route shown, or NullRec
    calls,        \* history: routing calls issued for the request
    seenMin,      \* history: lowest score of the routes returned so far
    seenMinDiff,  \* history: lowest distance error of the routes returned so far
    trialFailed,  \* history: a call of the latest trial failed or had no route
    usedThree,    \* history: a trial of the request used three waypoints
    simpPc,       \* a call of the simplifier on its own: "off", "ready",
                  \* "returned", "again"
    simpInput,    \* history: the steps of the input list as they were given
    simpObjs,     \* the step objects that exist
    simpSteps,    \* the input array `steps`
    simpResult,   \* the array the latest call returned
    fn,           \* a call of a helper on its own: "none", "overlap", "key",
                  \* "smoothness", "format"
    fnPc,         \* "off", "ready", "returned"
    fnArg,        \* the argument of the call
    fnResult,     \* what the call returned
    cancelled     \* the client dropped the connection (req.signal is aborted)

vars == <<handler, token, client, provider, counting, pc, origin, params, start, targetKm, t, s, shape, low, high,
          leg, best, bestScore, inflight, response, km, loading, routeError, uiRoute,
          calls, seenMin, seenMinDiff, trialFailed, usedThree,
          simpPc, simpInput, simpObjs, simpSteps, simpResult,
          fn, fnPc, fnArg, fnResult, cancelled>>

uiVars == <<km, loading, routeError, uiRoute>>

searchVars == <<t, s, shape, low, high, leg, best, bestScore, inflight>>

histVars == <<calls, seenMin, seenMinDiff, trialFailed, usedThree>>

simpVars == <<simpPc, simpInput, simpObjs, simpSteps, simpResult>>

fnVars == <<fn, fnPc, fnArg, fnResult>>

\* What no step of a request reads or writes.
otherVars == <<simpVars, fnVars, cancelled>>

requestVars == <<handler, token, client, provider, counting, pc, origin, params, start,
                 targetKm, response>>

\* The state before a request, for the scenarios given.
Start(handlers, tokens, clients, kms, providers, count) ==
    /\ handler \in handlers
    /\ token \in tokens
    /\ client \in clients
    /\ provider \in providers
    /\ counting = count
    /\ usedThree = FALSE
    /\ pc = "idle"
    /\ origin = "none"
    /\ params = [lat |-> Absent, lng |-> Absent, km |-> Absent]
    /\ start = [lat |-> 0, lng |-> 0, off |-> <<>>]
    /\ targetKm = 0
    /\ t = 0
    /\ s = 0
    /\ shape = NoShape
    /\ low = 0
    /\ high = 0
    /\ leg = 0
    /\ best = NullRec
    /\ bestScore = Infinity
    /\ inflight = <<>>
    /\ response = NullRec
    /\ km \in (IF client = "ui" THEN kms ELSE {"5"})
    /\ loading = FALSE
    /\ routeError = Null
    /\ uiRoute = NullRec
    /\ calls = 0
    /\ seenMin = Infinity
    /\ seenMinDiff = Infinity
    /\ trialFailed = FALSE

\* No call of the simplifier on its own.
NoSimplifierCall ==
    /\ simpPc = "off"
    /\ simpInput = <<>>
    /\ simpObjs = <<>>
    /\ simpSteps = <<>>
    /\ simpResult = <<>>

\* No call of a helper on its own.
NoHelperCall ==
    /\ fn = "none"
    /\ fnPc = "off"
    /\ fnArg = <<>>
    /\ fnResult = <<>>

Init ==
    /\ Start({"v1", "v2"}, {TRUE, FALSE}, {"ui", "http"}, UiKms, {"any"}, FALSE)
    /\ NoSimplifierCall
    /\ NoHelperCall
    /\ cancelled = FALSE

\* Either handler and either client, with the routing calls counted.
InitBudget ==
    /\ Start({"v1", "v2"}, {TRUE}, {"ui", "http"}, {"0.1", "5"}, {"pair"}, TRUE)
    /\ NoSimplifierCall
    /\ NoHelperCall
    /\ cancelled = FALSE

\* The end-to-end scenario: the map UI at the fallback centre asks for 5 km
\* and the provider is the stub.
InitStub ==
    /\ Start({"v2"}, {TRUE}, {"ui"}, {"5"}, {"sum"}, TRUE)
    /\ NoSimplifierCall
    /\ NoHelperCall
    /\ cancelled = FALSE

\* Either handler, asked by the map UI for 5 km or 50 km, with the stub
\* provider of 1.3 times the leg sum.
InitStub13 ==
    /\ Start({"v1", "v2"}, {TRUE}, {"ui"}, {"5", "50"}, {"sum13"}, TRUE)
    /\ NoSimplifierCall
    /\ NoHelperCall
    /\ cancelled = FALSE

(***************************************************************************)
(* Map UI: generateRoute up to the request it sends.                       *)
(***************************************************************************)
isKmValid(k) ==
    LET n == Number(Text(k))
    IN  isFinite(n) /\ n.num * 10 > 2 * n.den /\ n.num < 100 * n.den

S_invalid_distance == <<"Please enter a valid distance in km (e.g. 3, 5.5).">>

generateRoute ==
    /\ pc = "idle"
    /\ client = "ui"
    /\ IF ~isKmValid(km)
       THEN /\ routeError' = S_invalid_distance
            /\ UNCHANGED <<pc, origin, params, loading>>
       ELSE /\ loading' = TRUE
            /\ routeError' = Null
            /\ params' = [lat |-> FALLBACK_CENTER.lat, lng |-> FALLBACK_CENTER.lng,
                          km |-> Text(km)]
            /\ origin' = "ui"
            /\ pc' = "recv"
    /\ UNCHANGED <<handler, token, client, provider, counting, start, targetKm, response, km,
                   uiRoute>>
    /\ UNCHANGED searchVars
    /\ UNCHANGED histVars
    /\ UNCHANGED otherVars

\* A generateRoute without the finally block: loading is reset after a
\* route only.
generateRouteSettledNoFinally ==
    /\ pc = "done"
    /\ origin = "ui"
    /\ IF response.status = 200
       THEN uiRoute' = response /\ loading' = FALSE /\ UNCHANGED routeError
       ELSE routeError' = <<response.error>> /\ UNCHANGED <<uiRoute, loading>>
    /\ pc' = "settled"
    /\ UNCHANGED <<handler, token, client, provider, counting, origin, params, start, targetKm,
                   response, km>>
    /\ UNCHANGED searchVars
    /\ UNCHANGED histVars
    /\ UNCHANGED otherVars

\* generateRoute after the await: the response is shown, or its error.
generateRouteSettled ==
    /\ pc = "done"
    /\ origin = "ui"
    /\ IF response.status = 200
       THEN uiRoute' = response /\ UNCHANGED routeError
       ELSE routeError' = <<response.error>> /\ UNCHANGED uiRoute
    /\ loading' = FALSE
    /\ pc' = "settled"
    /\ UNCHANGED <<handler, token, client, provider, counting, origin, params, start, targetKm,
                   response, km>>
    /\ UNCHANGED searchVars
    /\ UNCHANGED histVars
    /\ UNCHANGED otherVars

S_Failed_to_fetch == <<"Failed to fetch">>

S_Could_not_generate_route == <<"Could not generate route">>

\* generateRoute when the awaited fetch rejects (the request never reached
\* the handler) or res.json() throws on the body received: the catch block
\* shows err.message, or the default text when it is empty, and the finally
\* block resets loading.
generateRouteThrows ==
    /\ pc \in {"recv", "done"}
    /\ origin = "ui"
    /\ routeError' \in {S_Failed_to_fetch, S_Could_not_generate_route}
    /\ loading' = FALSE
    /\ pc' = "settled"
    /\ UNCHANGED <<handler, token, client, provider, counting, origin, params, start, targetKm,
                   response, km, uiRoute>>
    /\ UNCHANGED searchVars
    /\ UNCHANGED histVars
    /\ UNCHANGED otherVars

\* generateRoute called again after an earlier call has settled: route and
\* km are as the earlier call left them, and the handler serves the new
\* request with locals of its own.
generateRouteAgain ==
    /\ pc = "settled"
    /\ client = "ui"
    /\ IF ~isKmValid(km)
       THEN /\ routeError' = S_invalid_distance
            /\ UNCHANGED <<pc, origin, params, loading, start, targetKm, response>>
            /\ UNCHANGED searchVars
            /\ UNCHANGED histVars
       ELSE /\ loading' = TRUE
            /\ routeError' = Null
            /\ params' = [lat |-> FALLBACK_CENTER.lat, lng |-> FALLBACK_CENTER.lng,
                          km |-> Text(km)]
            /\ origin' = "ui"
            /\ pc' = "recv"
            /\ start' = [lat |-> 0, lng |-> 0, off |-> <<>>]
            /\ targetKm' = 0
            /\ response' = NullRec
            /\ t' = 0 /\ s' = 0 /\ shape' = NoShape
            /\ low' = 0 /\ high' = 0 /\ leg' = 0
            /\ best' = NullRec /\ bestScore' = Infinity /\ inflight' = <<>>
            /\ calls' = 0 /\ seenMin' = Infinity /\ seenMinDiff' = Infinity
            /\ trialFailed' = FALSE /\ usedThree' = FALSE
    /\ UNCHANGED <<handler, token, client, provider, counting, km, uiRoute>>
    /\ UNCHANGED otherVars

\* Any other client sends a request of its own making.
DirectRequest ==
    /\ pc = "idle"
    /\ client = "http"
    /\ \E req \in HttpRequests : params' = req
    /\ origin' = "http"
    /\ pc' = "recv"
    /\ UNCHANGED <<handler, token, client, provider, counting, start, targetKm, response>>
    /\ UNCHANGED uiVars
    /\ UNCHANGED otherVars
    /\ UNCHANGED searchVars
    /\ UNCHANGED histVars

(***************************************************************************)
(* GET /api/route.                                                         *)
(***************************************************************************)
InvalidParams == [status |-> 400, error |-> "Invalid params"]

MissingToken == [status |-> 500, error |-> "Missing MAPBOX_SECRET_TOKEN"]

CouldNotGenerate == [status |-> 500, error |-> "Could not generate a route"]

\* Parameter parsing and the two early returns.
GET_Validate ==
    /\ pc = "recv"
    /\ LET lat == Number(params.lat)
           lng == Number(params.lng)
           kmNum == Number(params.km)
       IN  IF ~isFinite(lat) \/ ~isFinite(lng) \/ ~isFinite(kmNum)
           THEN /\ response' = InvalidParams
                /\ pc' = "done"
                /\ UNCHANGED <<start, targetKm>>
           ELSE IF ~token
           THEN /\ response' = MissingToken
                /\ pc' = "done"
                /\ UNCHANGED <<start, targetKm>>
           ELSE /\ start' = [lat |-> InUnits(lat, DegUnit), lng |-> InUnits(lng, DegUnit),
                             off |-> <<>>]
                /\ targetKm' = InUnits(kmNum, KmUnit)
                /\ pc' = "trial"
                /\ UNCHANGED response
    /\ UNCHANGED <<handler, token, client, provider, counting, origin, params>>
    /\ UNCHANGED uiVars
    /\ UNCHANGED otherVars
    /\ UNCHANGED searchVars
    /\ UNCHANGED histVars

\* The shape drawn at the start of a trial from six (v1: two) random numbers.
Shape(h, q1, q2, q3, q4, q5, q6) ==
    LET b1 == 36 * q1
        b2 == IF h = "v2" THEN (b1 + 95 * 14 + 9 * q2) % (360 * 14)
                          ELSE (b1 + 110 * 14 + 8 * q2) % (360 * 14)
    IN  IF h = "v2"
        THEN [b1 |-> b1, b2 |-> b2,
              useThreeWaypoints |-> q3 * 10 < 7 * RandDen,
              b3 |-> (b2 + 80 * 14 + 8 * q4) % (360 * 14),
              leg2Scale |-> 16 + q5 \div 20,
              leg3Scale |-> 13 + q6 \div 20]
        ELSE [NoShape EXCEPT !.b1 = b1, !.b2 = b2]

\* The initial bracket and guess: targetKm * 0.12, * 0.45 and * 0.22.
InitialLow(target) == (target \div 100) * 12

\* An upper end of the bracket at a quarter of the target.
InitialHighQuarter(target) == (target \div 100) * 25

InitialHigh(target) == (target \div 100) * 45

\* A first guess at the midpoint of the bracket.
InitialLegMidpoint(target) == ((target \div 100) * 12 + (target \div 100) * 45) \div 2

\* A first guess above the bracket.
InitialLegHalf(target) == (target \div 100) * 50

InitialLeg(target) == (target \div 100) * 22

\* Top of the outer loop body: the random shape and the initial bracket.
BeginTrial ==
    /\ pc = "trial"
    /\ t < Tries(handler)
    /\ \E q1 \in RandBearing, q2 \in RandOffset, q3 \in RandWaypoints,
          q4 \in RandOffset, q5 \in RandScale, q6 \in RandScale :
          shape' = Shape(handler, q1, q2, q3, q4, q5, q6)
    /\ low' = InitialLow(targetKm)
    /\ high' = InitialHigh(targetKm)
    /\ leg' = InitialLeg(targetKm)
    /\ s' = 0
    /\ trialFailed' = FALSE
    /\ usedThree' = (usedThree \/ shape'.useThreeWaypoints)
    /\ pc' = "step"
    /\ UNCHANGED <<handler, token, client, provider, counting, origin, params, start,
                   targetKm, t, best, bestScore, inflight, response, calls, seenMin,
                   seenMinDiff>>
    /\ UNCHANGED uiVars
    /\ UNCHANGED otherVars

\* Top of the inner loop body: build the candidate and call fetchDirections.
fetchDirections ==
    /\ pc = "step"
    /\ inflight' = Candidate(handler, start, shape, leg)
    /\ calls' = IF counting THEN calls + 1 ELSE calls
    /\ pc' = "await"
    /\ UNCHANGED <<handler, token, client, provider, counting, origin, params, start,
                   targetKm, t, s, shape, low, high, leg, best, bestScore, response,
                   seenMin, seenMinDiff, trialFailed, usedThree>>
    /\ UNCHANGED uiVars
    /\ UNCHANGED otherVars

\* A comparison of the distance error alone with the best score.
ImprovesByDistance(sc, bestSoFar) == sc.distanceDiffKm < bestSoFar

\* A comparison that keeps the higher score.
ImprovesFlipped(sc, bestSoFar) == sc.score > bestSoFar

\* The comparison that decides whether a route replaces the best one.
Improves(sc, bestSoFar) == sc.score < bestSoFar

ImprovesV1(sc, bestSoFar) == sc.distanceDiffKm < bestSoFar

\* A loop test that lets the inner loop run once more than tuneSteps.
NextIterationOffByOne(break, newLow, newHigh, newLeg, failed) ==
    IF break \/ s + 1 > tuneSteps
    THEN /\ t' = t + 1
         /\ s' = 0
         /\ shape' = NoShape
         /\ low' = 0
         /\ high' = 0
         /\ leg' = 0
         /\ trialFailed' = failed
         /\ pc' = "trial"
    ELSE /\ s' = s + 1
         /\ low' = newLow
         /\ high' = newHigh
         /\ leg' = newLeg
         /\ trialFailed' = failed
         /\ pc' = "step"
         /\ UNCHANGED <<t, shape>>

\* An inner loop that goes on after a break.
NextIterationNoBreak(break, newLow, newHigh, newLeg, failed) ==
    IF s + 1 >= tuneSteps
    THEN /\ t' = t + 1
         /\ s' = 0
         /\ shape' = NoShape
         /\ low' = 0
         /\ high' = 0
         /\ leg' = 0
         /\ trialFailed' = failed
         /\ pc' = "trial"
    ELSE /\ s' = s + 1
         /\ low' = newLow
         /\ high' = newHigh
         /\ leg' = newLeg
         /\ trialFailed' = failed
         /\ pc' = "step"
         /\ UNCHANGED <<t, shape>>

\* s++ and the loop test.  A break, or the end of the inner loop, ends the
\* trial, and the trial's block-scoped variables cease to exist; otherwise
\* the next iteration runs with the bracket given.
NextIteration(break, newLow, newHigh, newLeg, failed) ==
    IF break \/ s + 1 >= tuneSteps
    THEN /\ t' = t + 1
         /\ s' = 0
         /\ shape' = NoShape
         /\ low' = 0
         /\ high' = 0
         /\ leg' = 0
         /\ trialFailed' = failed
         /\ pc' = "trial"
    ELSE /\ s' = s + 1
         /\ low' = newLow
         /\ high' = newHigh
         /\ leg' = newLeg
         /\ trialFailed' = failed
         /\ pc' = "step"
         /\ UNCHANGED <<t, shape>>

\* fetchDirections throws: fetch failed, the status is not ok, or the body is
\* no JSON.  The catch block breaks out of the inner loop.
DirectionsError ==
    /\ pc = "await"
    /\ provider # "sum"
    /\ inflight' = <<>>
    /\ NextIteration(TRUE, low, high, leg, TRUE)
    /\ UNCHANGED <<handler, token, client, provider, counting, origin, params, start,
                   targetKm, best, bestScore, response, calls, seenMin, seenMinDiff,
                   usedThree>>
    /\ UNCHANGED uiVars
    /\ UNCHANGED otherVars

\* The response has no routes[0]: continue.
DirectionsNoRoute ==
    /\ pc = "await"
    /\ provider # "sum"
    /\ inflight' = <<>>
    /\ NextIteration(FALSE, low, high, leg, TRUE)
    /\ UNCHANGED <<handler, token, client, provider, counting, origin, params, start,
                   targetKm, best, bestScore, response, calls, seenMin, seenMinDiff,
                   usedThree>>
    /\ UNCHANGED uiVars
    /\ UNCHANGED otherVars

\* A search that moves the bracket away from the target.
ProcessRouteSwapped(route) ==
    \E sc \in {scoreRoute(route, targetKm)} :
    LET improves == IF handler = "v2" THEN Improves(sc, bestScore)
                                      ELSE ImprovesV1(sc, bestScore)
        within == sc.distanceDiffKm <= Tolerance(handler)
        newHigh == IF sc.routeKm > targetKm THEN high ELSE leg
        newLow == IF sc.routeKm > targetKm THEN leg ELSE low
    IN  /\ inflight' = <<>>
        /\ IF improves
           THEN /\ bestScore' = IF handler = "v2" THEN sc.score ELSE sc.distanceDiffKm
                /\ best' = route
           ELSE UNCHANGED <<best, bestScore>>
        /\ NextIteration(within, newLow, newHigh, (newLow + newHigh) \div 2, trialFailed)
        /\ seenMin' = IF sc.score < seenMin THEN sc.score ELSE seenMin
        /\ seenMinDiff' = IF sc.distanceDiffKm < seenMinDiff THEN sc.distanceDiffKm
                          ELSE seenMinDiff
        /\ UNCHANGED <<handler, token, client, provider, counting, origin, params, start,
                       targetKm, response, calls, usedThree>>
        /\ UNCHANGED uiVars
        /\ UNCHANGED otherVars

\* The rest of the inner loop body for the route the provider answered with.
ProcessRoute(route) ==
    \E sc \in {scoreRoute(route, targetKm)} :
    LET improves == IF handler = "v2" THEN Improves(sc, bestScore)
                                      ELSE ImprovesV1(sc, bestScore)
        within == sc.distanceDiffKm <= Tolerance(handler)
        newHigh == IF sc.routeKm > targetKm THEN leg ELSE high
        newLow == IF sc.routeKm > targetKm THEN low ELSE leg
    IN  /\ inflight' = <<>>
        /\ IF improves
           THEN /\ bestScore' = IF handler = "v2" THEN sc.score ELSE sc.distanceDiffKm
                /\ best' = route
           ELSE UNCHANGED <<best, bestScore>>
        /\ NextIteration(within, newLow, newHigh, (newLow + newHigh) \div 2, trialFailed)
        /\ seenMin' = IF sc.score < seenMin THEN sc.score ELSE seenMin
        /\ seenMinDiff' = IF sc.distanceDiffKm < seenMinDiff THEN sc.distanceDiffKm
                          ELSE seenMinDiff
        /\ UNCHANGED <<handler, token, client, provider, counting, origin, params, start,
                       targetKm, response, calls, usedThree>>
        /\ UNCHANGED uiVars
        /\ UNCHANGED otherVars

\* The sum of the leg lengths a candidate asks for.
RECURSIVE LegSum(_)
LegSum(coords) ==
    IF coords = <<>> THEN 0
    ELSE (IF Head(coords).off = <<>> THEN 0 ELSE Head(coords).off[2]) + LegSum(Tail(coords))

\* The stub provider's route: as long as the sum of the requested leg
\* lengths, with no steps (no turns) and a line without overlap.
StubRoute(coords) ==
    MapboxRoute(LegSum(coords), PaceDuration(LegSum(coords)) * 2, "straight", <<>>)

\* A stub provider whose route is 1.3 times as long as the sum of the
\* requested leg lengths.
StubRoute13(coords) ==
    LET distance == (LegSum(coords) \div 10) * 13
    IN  MapboxRoute(distance, PaceDuration(distance) * 2, "straight", <<>>)

\* The routes the scenario's provider may answer the call in flight with.
Answers ==
    CASE provider = "any" -> Routes
      [] provider = "pair" -> {r \in Routes : r.distance \in {M(4800), M(7000)}}
      [] provider = "sum" -> {StubRoute(inflight)}
      [] provider = "sum13" -> {StubRoute13(inflight)}

DirectionsRoute ==
    /\ pc = "await"
    /\ \E route \in Answers : ProcessRoute(route)

\* formatInstruction applied to every step of every leg of the best route.
RawStep(st) ==
    LET maneuver == Field(st, "maneuver", [none |-> TRUE])
    IN  [instruction |-> formatInstruction(st),
         distance_m |-> Field(st, "distance", 0),
         duration_s |-> Field(st, "duration", 0),
         location |-> Field(maneuver, "location", Null),
         type |-> Field(maneuver, "type", Null),
         modifier |-> Field(maneuver, "modifier", Null),
         name |-> Field(st, "name", Null)]

rawSteps(route) ==
    LET steps == RouteSteps(route)
    IN  [i \in 1..Len(steps) |-> RawStep(steps[i])]

\* The response for the best route.
RouteResponse(h, route) ==
    LET feature == [type |-> "Feature",
                    geometry |-> [type |-> "LineString",
                                  coordinates |-> Lines[route.geometry.coordinates]]]
        distance_m == route.distance
    IN  IF h = "v2"
        THEN [status |-> 200, geojson |-> feature, distance_m |-> distance_m,
              duration_s |-> PaceDuration(distance_m),
              steps |-> Simplified(rawSteps(route))]
        ELSE [status |-> 200, geojson |-> feature, distance_m |-> distance_m,
              duration_s |-> route.duration]

\* After the last trial: the no-route error or the response.
GET_Respond ==
    /\ pc = "trial"
    /\ t >= Tries(handler)
    /\ response' = IF best = NullRec THEN CouldNotGenerate
                   ELSE RouteResponse(handler, best)
    /\ pc' = "done"
    /\ UNCHANGED <<handler, token, client, provider, counting, origin, params, start, targetKm>>
    /\ UNCHANGED uiVars
    /\ UNCHANGED otherVars
    /\ UNCHANGED searchVars
    /\ UNCHANGED histVars

Next ==
    \/ generateRoute
    \/ generateRouteSettled
    \/ DirectRequest
    \/ GET_Validate
    \/ BeginTrial
    \/ fetchDirections
    \/ DirectionsError
    \/ DirectionsNoRoute
    \/ DirectionsRoute
    \/ GET_Respond

Spec == Init /\ [][Next]_vars

SpecBudget == InitBudget /\ [][Next]_vars

\* The stub provider always answers with a route.
NextStub ==
    \/ generateRoute
    \/ generateRouteSettled
    \/ GET_Validate
    \/ BeginTrial
    \/ fetchDirections
    \/ DirectionsRoute
    \/ GET_Respond

SpecStub == InitStub /\ [][NextStub]_vars

SpecStub13 == InitStub13 /\ [][NextStub]_vars

\* The steps the handler and the map UI take by themselves.  An answer of
\* the provider is not among them: fetchDirections awaits fetch(url) with no
\* timeout and no abort signal, so nothing but an answer ends the await.
HandlerStep ==
    \/ generateRoute
    \/ generateRouteSettled
    \/ GET_Validate
    \/ BeginTrial
    \/ fetchDirections
    \/ GET_Respond

\* The stub provider may leave a call unanswered for ever; the handler and
\* the UI take every step they can take.
SpecUnanswered == InitStub /\ [][NextStub]_vars /\ WF_vars(HandlerStep)

\* The map UI used repeatedly, with and without the provider's token, and
\* with requests that fail on the way.
InitUi ==
    /\ Start({"v2"}, {TRUE, FALSE}, {"ui"}, {"5"}, {"sum"}, FALSE)
    /\ NoSimplifierCall
    /\ NoHelperCall
    /\ cancelled = FALSE

NextUi ==
    \/ NextStub
    \/ generateRouteThrows
    \/ generateRouteAgain

SpecUi == InitUi /\ [][NextUi]_vars

\* The client goes away while its request is being served: req.signal is
\* aborted.  GET never reads req.signal and passes no signal to fetch, so
\* nothing of the handler's state changes.
ClientDisconnects ==
    /\ pc \in {"recv", "trial", "step", "await"}
    /\ ~cancelled
    /\ cancelled' = TRUE
    /\ UNCHANGED <<simpVars, fnVars, requestVars, uiVars, searchVars, histVars>>

NextCancel ==
    \/ NextStub
    \/ ClientDisconnects

SpecCancel == InitStub /\ [][NextCancel]_vars

(***************************************************************************)
(* The simplifier called on its own, on lists of steps as rawSteps builds  *)
(* them from provider steps, and called again on what it returned.         *)
(***************************************************************************)
MaxSteps == 4

Step(name, meters, type, modifier, instruction) ==
    MapboxStep(name, M(meters), Sec(meters), Maneuver(instruction, type, modifier))

\* The step without the optional field name.
NoName(st) == [f \in DOMAIN st \ {"name"} |-> st[f]]

\* The step without the optional field maneuver.type.
NoType(st) ==
    [st EXCEPT !.maneuver = [f \in DOMAIN st.maneuver \ {"type"} |-> st.maneuver[f]]]

ProviderSteps ==
    { Step(S_Oak_Avenue, 1000, S_depart, S_straight, S_Head_north),
      NoName(Step(<<>>, 0, S_arrive, S_left, S_arrived)),
      Step(S_Main_Street, 10, S_turn, S_left, S_Turn_left_onto_Main_Street),
      Step(S_Main_Street, 15, S_turn, S_left, S_Turn_left_onto_Main_Street),
      Step(S_Main_Street, 25, S_turn, S_left, S_Turn_left_onto_Main_Street),
      NoName(Step(<<>>, 20, S_turn, S_left, S_Turn_left)),
      Step(S_Seaside_Path, 40, S_turn, S_left, S_Turn_left),
      Step(S_Seaside_Path, 30, S_turn, S_right, S_Turn_right),
      NoName(Step(<<>>, 50, S_turn, S_left, S_Turn_left)),
      NoName(Step(<<>>, 45, S_turn, S_right, S_Turn_right)),
      NoName(Step(<<>>, 60, S_turn, S_right, S_Turn_right)) }

\* Steps around every threshold of the filter, of every kind of type and name.
ThresholdSteps ==
    LET meters == {7, 8, 19, 20, 44, 45, 139, 140, 219, 220}
        types == {S_depart, S_arrive, S_turn, S_end_of_road, S_continue, S_new_name}
        named == { Step(n, m, ty, S_left, S_Continue) :
                     n \in {S_Main_Street, S_Seaside_Path, <<>>}, m \in meters, ty \in types }
    IN  named \cup { NoName(st) : st \in named } \cup { NoType(st) : st \in named }

StepLists ==
    LET pool == { RawStep(st) : st \in ProviderSteps }
        first == RawStep(Step(S_Oak_Avenue, 1000, S_depart, S_straight, S_Head_north))
        last == RawStep(NoName(Step(<<>>, 0, S_arrive, S_left, S_arrived)))
    IN  UNION { [1..n -> pool] : n \in 0..MaxSteps }
        \cup { <<first, RawStep(st), last>> : st \in ThresholdSteps }

InitSimplify ==
    /\ Start({"v2"}, {TRUE}, {"http"}, {"5"}, {"any"}, FALSE)
    /\ simpPc = "ready"
    /\ simpInput \in StepLists
    /\ simpObjs = simpInput
    /\ simpSteps = Refs(simpInput)
    /\ simpResult = <<>>
    /\ NoHelperCall
    /\ cancelled = FALSE

\* simplifyRouteSteps(steps)
Simplify ==
    /\ simpPc = "ready"
    /\ \E call \in {simplifyRouteSteps(simpObjs, simpSteps)} :
        /\ simpObjs' = call.objs
        /\ simpSteps' = call.steps
        /\ simpResult' = call.result
    /\ simpPc' = "returned"
    /\ UNCHANGED <<simpInput, requestVars, uiVars, searchVars, histVars, fnVars, cancelled>>

\* simplifyRouteSteps(result), with the list the first call returned
SimplifyAgain ==
    /\ simpPc = "returned"
    /\ \E call \in {simplifyRouteSteps(simpObjs, simpResult)} :
        /\ simpObjs' = call.objs
        /\ simpResult' = call.result
    /\ simpPc' = "again"
    /\ UNCHANGED <<simpInput, simpSteps, requestVars, uiVars, searchVars, histVars, fnVars,
                   cancelled>>

NextSimplify ==
    \/ Simplify
    \/ SimplifyAgain

SpecSimplify == InitSimplify /\ [][NextSimplify]_vars

(***************************************************************************)
(* The helpers of the scorer and of the wording called on their own, on    *)
(* bounded arguments.                                                      *)
(***************************************************************************)
MaxPoints == 4

\* Polyline points, <<lng, lat>> in units of 0.00001 degree: corners of a
\* block, a point 3 m from the first corner (a segment under the 5 m floor)
\* and points 8 m from it (segments whose ends snap to one grid point).
Points == { <<0, 0>>, <<100, 0>>, <<100, 100>>, <<3, 0>>, <<8, 0>>, <<0, 8>> }

Polylines == UNION { [1..n -> Points] : n \in 0..MaxPoints }

MaxRouteSteps == 3

\* Provider steps of every kind of maneuver type, on either side of 45 m, and
\* steps without a type, without a distance and without a maneuver.
ScoredSteps ==
    LET turn(type, meters) == Step(S_Main_Street, meters, type, S_left, S_Turn_left)
    IN  { turn(S_turn, 44), turn(S_turn, 45), turn(S_roundabout_turn, 44),
          turn(S_fork, 45), turn(S_roundabout, 44), turn(S_rotary, 44),
          turn(S_merge, 44), turn(S_continue, 10), NoType(turn(S_turn, 44)),
          [name |-> S_Main_Street, duration |-> Sec(30),
           maneuver |-> Maneuver(S_Turn_left, S_turn, S_left)],
          [name |-> S_Main_Street, distance |-> M(30), duration |-> Sec(30)] }

ScoredRoutes == UNION { [1..n -> ScoredSteps] : n \in 0..MaxRouteSteps }

\* The step without the optional fields in top and, of its maneuver, in inner.
Without(st, top, inner) ==
    [f \in DOMAIN st \ top |->
        IF f = "maneuver"
        THEN [g \in DOMAIN st.maneuver \ inner |-> st.maneuver[g]]
        ELSE st[f]]

\* Provider steps of every maneuver type the wording distinguishes, with a
\* specific, a padded, a generic, an empty or no name, with, with an empty or
\* without a modifier, and with raw text that has or has not the name in it.
WordedSteps ==
    LET full == { Step(name, 100, type, modifier, instruction) :
                    name \in {S_Main_Street, <<" ">> \o S_Main_Street, S_Seaside_Path, <<>>},
                    type \in {S_arrive, S_turn, S_fork, S_merge, S_depart, S_continue},
                    modifier \in {S_left, <<>>},
                    instruction \in {S_Turn_left, S_Turn_left_onto_Main_Street,
                                     S_Continue_on_the_walkway, <<>>} }
    IN  { Without(st, top, inner) :
            st \in full, top \in SUBSET {"name"},
            inner \in {{}, {"type"}, {"modifier"}, {"instruction"}, {"type", "modifier"}} }
        \cup { [name |-> S_Main_Street, distance |-> M(100), duration |-> Sec(100)] }

InitHelpers ==
    /\ Start({"v2"}, {TRUE}, {"http"}, {"5"}, {"any"}, FALSE)
    /\ NoSimplifierCall
    /\ cancelled = FALSE
    /\ fnPc = "ready"
    /\ fnResult = <<>>
    /\ \/ fn = "overlap" /\ fnArg \in Polylines
       \/ fn = "key" /\ fnArg \in Points \X Points
       \/ fn = "smoothness" /\ fnArg \in ScoredRoutes
       \/ fn = "format" /\ fnArg \in WordedSteps

\* getRouteOverlapPenaltyKm(route) for a route of the coordinates fnArg
OverlapCall ==
    /\ fn = "overlap"
    /\ fnPc = "ready"
    /\ fnResult' = OverlapPenalty(fnArg)
    /\ fnPc' = "returned"
    /\ UNCHANGED <<fn, fnArg, cancelled, simpVars, requestVars, uiVars, searchVars, histVars>>

\* segmentKey(a, b)
SegmentKeyCall ==
    /\ fn = "key"
    /\ fnPc = "ready"
    /\ fnResult' = segmentKey(fnArg[1], fnArg[2])
    /\ fnPc' = "returned"
    /\ UNCHANGED <<fn, fnArg, cancelled, simpVars, requestVars, uiVars, searchVars, histVars>>

\* getRouteSmoothnessPenaltyKm(route) for a route of the steps fnArg
SmoothnessCall ==
    /\ fn = "smoothness"
    /\ fnPc = "ready"
    /\ fnResult' = SmoothnessPenalty(fnArg)
    /\ fnPc' = "returned"
    /\ UNCHANGED <<fn, fnArg, cancelled, simpVars, requestVars, uiVars, searchVars, histVars>>

\* formatInstruction(step) for the step fnArg
FormatCall ==
    /\ fn = "format"
    /\ fnPc = "ready"
    /\ fnResult' = formatInstruction(fnArg)
    /\ fnPc' = "returned"
    /\ UNCHANGED <<fn, fnArg, cancelled, simpVars, requestVars, uiVars, searchVars, histVars>>

NextHelpers ==
    \/ OverlapCall
    \/ SegmentKeyCall
    \/ SmoothnessCall
    \/ FormatCall

SpecHelpers == InitHelpers /\ [][NextHelpers]_vars

(***************************************************************************)
(* Properties of the search (part_002, GET) and of the older handler       *)
(* (src/app/api/route/route.ts, GET).                                      *)
(***************************************************************************)

\* C1: in the current handler the best holder always contains the route of
\* the lowest score total among all the routes returned so far by any call
\* of any trial of the request: bestScore is the lowest score seen, best is
\* null exactly when no route has been returned, and the score of best is
\* that lowest score; so the route returned at the end scores no higher
\* than any route seen.
C1_BestHasLowestScore ==
    handler = "v2" =>
        /\ bestScore = seenMin
        /\ (best = NullRec) = (seenMin = Infinity)
        /\ best # NullRec => scoreRoute(best, targetKm).score = seenMin
        /\ (pc = "done" /\ response # NullRec /\ response.status = 200) =>
               /\ best # NullRec
               /\ response.distance_m = best.distance

\* C1 witness: a request has ended with a route although a route closer to
\* the target (of a lower distance error, and a higher total) was returned
\* by some call of the request.
C1_Witness ==
    /\ handler = "v2"
    /\ pc = "done"
    /\ response.status = 200
    /\ best # NullRec
    /\ t = bearingTries
    /\ scoreRoute(best, targetKm).distanceDiffKm > seenMinDiff
    /\ bestScore = seenMin

\* C2: a request that reaches the search ends with the no-route error
\* exactly when no routing call of any trial returned a route, and ends with
\* a route as soon as one call returned one, whatever failed before or after
\* (either handler).  A request that ends before the search ends with
\* another error.
C2_NoRouteErrorIffNoRoute ==
    pc = "done" =>
        /\ (response = CouldNotGenerate) = (t >= Tries(handler) /\ seenMin = Infinity)
        /\ seenMin < Infinity => response.status = 200

\* C2 witness: a request ends with a route although a call of its last trial
\* failed or came back without a route.
C2_Witness ==
    /\ pc = "done"
    /\ response.status = 200
    /\ trialFailed
    /\ seenMin < Infinity

\* C3: a routing call that fails, a response without a route included, ends
\* the trial at once: no call is issued in a trial after one of its calls
\* failed or came back without a route.
C3_FailedCallEndsTrial ==
    pc = "await" => ~trialFailed

\* C4: the search terminates and one request issues at most trials *
\* tuneSteps routing calls, whatever the provider answers.  The number of
\* calls never exceeds Tries(handler) * tuneSteps; and the handler's position
\* (trial, inner iteration, place in the loop body) is bounded and advances
\* with every step of a request being served, so that no request is served
\* for more than a bounded number of steps.
C4_TerminatesWithinBudget ==
    /\ [](calls <= Tries(handler) * tuneSteps)
    /\ [](t <= Tries(handler) /\ s < tuneSteps)
    /\ [][(pc \in {"recv", "trial", "step", "await"}) =>
           (LET place(at) == IF at = "trial" THEN 1 ELSE IF at = "step" THEN 2 ELSE 3
                position(trial, step, at) ==
                    IF at = "done" THEN (Tries(handler) + 1) * 3 * tuneSteps
                    ELSE IF at = "recv" THEN 0
                    ELSE trial * 3 * tuneSteps + 3 * step + place(at)
            IN  position(t', s', pc') > position(t, s, pc))]_vars

\* C4 witness: a request of the current handler has ended after exactly
\* 9 * 6 = 54 routing calls.
C4_Witness ==
    /\ handler = "v2"
    /\ pc = "done"
    /\ calls = bearingTries * tuneSteps
    /\ calls = 54

\* C5: every candidate submitted has the request's start point as its first
\* and as its last point, with 2 or 3 waypoints between them (4 or 5 points
\* in total), each a projection from the start point.
C5_CandidateIsClosedLoop ==
    inflight # <<>> =>
        /\ Len(inflight) \in {4, 5}
        /\ inflight[1] = start
        /\ inflight[Len(inflight)] = start
        /\ \A i \in 2..(Len(inflight) - 1) :
               inflight[i].lat = start.lat /\ inflight[i].lng = start.lng
        /\ Len(inflight) = (IF handler = "v2" /\ shape.useThreeWaypoints THEN 5 ELSE 4)

\* C5 witness: a candidate of five points is in flight in a later trial and
\* a later inner iteration, its waypoints away from the start.
C5_Witness ==
    /\ pc = "await"
    /\ Len(inflight) = 5
    /\ t >= 1
    /\ s >= 1
    /\ \A i \in 2..4 : inflight[i].off # <<>>

\* C6: a request in which lat, lng or km is missing or is no finite number
\* is answered at once with the invalid-input error (where the server has
\* its token) and no trial starts and no routing call is issued for it.
C6_MissingOrNonFiniteRejected ==
    (/\ origin # "none"
     /\ \E name \in {"lat", "lng", "km"} :
            ~params[name].present \/ ~isFinite(Number(params[name]))) =>
        /\ pc \in {"recv", "done"}
        /\ inflight = <<>>
        /\ (pc = "done" /\ token) => response = InvalidParams

\* C7: a request whose target does not satisfy 0.2 < km < 100 is rejected
\* as invalid input (where the server has its token) before any search, by
\* the map UI and by the handler: no trial starts and no routing call is
\* issued for it.
C7_OutOfRangeRejected ==
    (/\ origin # "none"
     /\ isFinite(Number(params.km))
     /\ ~(/\ Number(params.km).num * 10 > 2 * Number(params.km).den
          /\ Number(params.km).num < 100 * Number(params.km).den)) =>
        /\ pc \in {"recv", "done"}
        /\ inflight = <<>>
        /\ (pc = "done" /\ token) => response = InvalidParams

\* C8: in every successful response duration_s is the returned distance in
\* km * 6 min/km * 60, whatever duration the provider reported (either
\* handler).
C8_DurationFromPace ==
    (pc = "done" /\ response.status = 200) =>
        response.duration_s = PaceDuration(response.distance_m)

\* C9: every step of a response has a non-negative distance and a duration
\* equal to its distance * the fixed pace, whatever durations the provider
\* reported for the raw steps it was built from.
C9_StepDurationFromPace ==
    (pc = "done" /\ response.status = 200 /\ handler = "v2") =>
        \A i \in 1..Len(response.steps) :
            /\ response.steps[i].distance_m >= 0
            /\ response.steps[i].duration_s = PaceDuration(response.steps[i].distance_m)

\* C10 as stated: with target 5 km and the stub provider the route returned
\* is within the tolerance of 5000 m, for every outcome of the random
\* choices.
C10_StubWithinTolerance ==
    pc = "done" =>
        /\ response.status = 200
        /\ Abs(response.distance_m - M(5000)) <= toleranceKm

\* C10 amended: with target 5 km and the stub provider the route returned is
\* within the tolerance of 5000 m whenever at least one trial of the request
\* drew three waypoints.
C10_StubWithinToleranceThree ==
    (pc = "done" /\ usedThree) =>
        /\ response.status = 200
        /\ Abs(response.distance_m - M(5000)) <= toleranceKm

\* C10 witness: a request for 5 km with the stub provider, one of whose
\* trials drew three waypoints, has ended with a route within the tolerance
\* that is not exactly 5000 m long.
C10_Witness ==
    /\ provider = "sum"
    /\ pc = "done"
    /\ usedThree
    /\ targetKm = M(5000)
    /\ response.status = 200
    /\ Abs(response.distance_m - M(5000)) <= toleranceKm
    /\ response.distance_m # M(5000)

(***************************************************************************)
(* Properties of the instruction simplifier (part_002, simplifyRouteSteps). *)
(***************************************************************************)

\* C12: for every input of 0, 1 or 2 steps the simplifier returns the input
\* unchanged: the returned list is the input list, with the same steps in
\* the same order and every field as given, also when the two steps could
\* be merged; so the simplifier applied again to the result returns the
\* same list once more.
C12_ShortListsUnchanged ==
    (simpPc \in {"returned", "again"} /\ Len(simpInput) <= 2) =>
        /\ simpResult = simpSteps
        /\ Values(simpObjs, simpResult) = simpInput

C12_Witness ==
    /\ simpPc = "again"
    /\ Len(simpInput) = 2
    /\ SameWording(simpInput[1], simpInput[2])
    /\ simpInput[1].distance_m = M(10)
    /\ simpInput[2].distance_m = M(15)
    /\ Values(simpObjs, simpResult) = simpInput

\* C13: the simplifier never modifies its input: after a call, and after a
\* second call on the returned list, the input array has the same length
\* and order and every step object of it has the instruction, distance,
\* duration, location, type, modifier and name it had before the call, also
\* when the output has merged or reworded steps.
C13_InputNotModified ==
    simpPc \in {"returned", "again"} =>
        /\ simpSteps = Refs(simpInput)
        /\ \A i \in 1..Len(simpInput) : simpObjs[simpSteps[i]] = simpInput[i]

C13_Witness ==
    /\ simpPc = "returned"
    /\ Len(simpResult) < Len(simpInput)
    /\ \E i \in 1..Len(simpResult) :
        /\ simpObjs[simpResult[i]].instruction = S_Continue_straight
        /\ simpObjs[simpResult[i]].distance_m = M(110)
    /\ \E i \in 1..Len(simpResult) :
        /\ simpObjs[simpResult[i]].instruction = simpInput[1].instruction
        /\ simpObjs[simpResult[i]].distance_m > simpInput[1].distance_m
    /\ Values(simpObjs, simpSteps) = simpInput

\* C14 as the claim states it: whenever the list given to the simplifier has
\* two adjacent steps of identical instruction wording, type and modifier,
\* the output has them as one merged step (a step of that wording whose
\* distance and duration are at least the sums of the two), not as two
\* entries.
C14_AdjacentIdenticalMerged ==
    simpPc = "returned" =>
        \A i \in 1..(Len(simpInput) - 1) :
            SameWording(simpInput[i], simpInput[i + 1]) =>
                /\ Len(simpResult) < Len(simpInput)
                /\ \E j \in 1..Len(simpResult) :
                    /\ SameWording(simpObjs[simpResult[j]], simpInput[i])
                    /\ simpObjs[simpResult[j]].distance_m
                         >= simpInput[i].distance_m + simpInput[i + 1].distance_m
                    /\ simpObjs[simpResult[j]].duration_s
                         >= simpInput[i].duration_s + simpInput[i + 1].duration_s

\* C14, for lists of more than two steps: when two steps that follow each
\* other among the steps the filter keeps have identical instruction
\* wording, type and modifier, and the first of them was emitted as an entry
\* of its own, the merge loop folds the second into that entry: no entry is
\* added, and the entry keeps the first step's wording, type, modifier and
\* name with the distances and the durations added up.  When the second is
\* the last kept step, this entry ends the returned list.
C14_KeptIdenticalMerged ==
    (simpPc = "returned" /\ Len(simpInput) > 2) =>
        LET kept == FilterRefs(simpInput, Refs(simpInput), 1)
            after(k) == MergeLoop([objs |-> simpInput, merged |-> <<>>], SubSeq(kept, 1, k))
            entry(k) == after(k).objs[after(k).merged[Len(after(k).merged)]]
        IN  \A i \in 1..(Len(kept) - 1) :
                LET first == simpInput[kept[i]]
                    second == simpInput[kept[i + 1]]
                IN  ( /\ SameWording(first, second)
                      /\ Len(after(i).merged) = Len(after(i - 1).merged) + 1 ) =>
                        /\ Len(after(i + 1).merged) = Len(after(i).merged)
                        /\ entry(i + 1) =
                             [first EXCEPT !.distance_m = @ + second.distance_m,
                                           !.duration_s = @ + second.duration_s]
                        /\ i + 1 = Len(kept) =>
                             /\ Len(simpResult) = Len(after(i).merged)
                             /\ simpObjs[simpResult[Len(simpResult)]] = entry(i + 1)

C14_Witness ==
    /\ simpPc = "returned"
    /\ Len(simpInput) = 4
    /\ SameWording(simpInput[2], simpInput[3])
    /\ simpInput[2].distance_m = M(10)
    /\ simpInput[3].distance_m = M(15)
    /\ Len(simpResult) = 3
    /\ simpObjs[simpResult[2]] = [simpInput[2] EXCEPT !.distance_m = M(25),
                                                      !.duration_s = Sec(25)]

\* C15 as the claim states it: whenever the list given to the simplifier has
\* a 'turn left' step of 40 m with a generic name directly followed by a
\* 'turn right' step of 30 m with a generic name, the output has a single
\* 'Continue straight.' step of 70 m with the durations added up and with
\* type, modifier and name cleared, in place of the two turns.
C15_ZigZagBecomesContinue ==
    simpPc = "returned" =>
        \A i \in 1..(Len(simpInput) - 1) :
            LET left == simpInput[i]
                right == simpInput[i + 1]
            IN  ( /\ left.type = S_turn /\ left.modifier = S_left
                  /\ left.distance_m = M(40)
                  /\ ~Falsy(left.name) /\ isGenericPathName(left.name)
                  /\ right.type = S_turn /\ right.modifier = S_right
                  /\ right.distance_m = M(30)
                  /\ ~Falsy(right.name) /\ isGenericPathName(right.name) ) =>
                    /\ Len(simpResult) < Len(simpInput)
                    /\ \E j \in 1..Len(simpResult) :
                        simpObjs[simpResult[j]] =
                            [left EXCEPT !.instruction = S_Continue_straight,
                                         !.distance_m = M(70),
                                         !.duration_s = left.duration_s + right.duration_s,
                                         !.type = Null,
                                         !.modifier = Null,
                                         !.name = Null]

\* C15, for lists of more than two steps: an interior turn with a generic
\* name and less than 140 m is not kept by the filter; when two turns of
\* opposite direction, each of at most 70 m and with a generic or absent
\* name, follow each other among the steps the filter keeps and the first
\* was emitted as an entry of its own, the merge loop folds the second into
\* that entry: no entry is added and the entry becomes 'Continue straight.'
\* with the distances and durations added up and type, modifier and name
\* null.  When the second is the last kept step, this entry ends the
\* returned list.
C15_KeptZigZagBecomesContinue ==
    (simpPc = "returned" /\ Len(simpInput) > 2) =>
        LET kept == FilterRefs(simpInput, Refs(simpInput), 1)
            after(k) == MergeLoop([objs |-> simpInput, merged |-> <<>>], SubSeq(kept, 1, k))
            entry(k) == after(k).objs[after(k).merged[Len(after(k).merged)]]
        IN  /\ \A i \in 2..(Len(simpInput) - 1) :
                ( /\ simpInput[i].type = S_turn
                  /\ ~Falsy(simpInput[i].name) /\ isGenericPathName(simpInput[i].name)
                  /\ simpInput[i].distance_m < M(140) ) =>
                    \A k \in 1..Len(kept) : kept[k] # i
            /\ \A i \in 1..(Len(kept) - 1) :
                LET first == simpInput[kept[i]]
                    second == simpInput[kept[i + 1]]
                IN  ( /\ isOppositeZigZag(first, second)
                      /\ Len(after(i).merged) = Len(after(i - 1).merged) + 1 ) =>
                        /\ Len(after(i + 1).merged) = Len(after(i).merged)
                        /\ entry(i + 1) =
                             [first EXCEPT !.instruction = S_Continue_straight,
                                           !.distance_m = @ + second.distance_m,
                                           !.duration_s = @ + second.duration_s,
                                           !.type = Null,
                                           !.modifier = Null,
                                           !.name = Null]
                        /\ i + 1 = Len(kept) =>
                             /\ Len(simpResult) = Len(after(i).merged)
                             /\ simpObjs[simpResult[Len(simpResult)]] = entry(i + 1)

C15_Witness ==
    /\ simpPc = "returned"
    /\ Len(simpInput) = 3
    /\ simpInput[1].type = S_turn /\ simpInput[1].modifier = S_left
    /\ simpInput[1].distance_m = M(40) /\ simpInput[1].name = S_Seaside_Path
    /\ simpInput[3].type = S_turn /\ simpInput[3].modifier = S_right
    /\ simpInput[3].distance_m = M(30) /\ simpInput[3].name = S_Seaside_Path
    /\ Len(simpResult) = 1
    /\ simpObjs[simpResult[1]].instruction = S_Continue_straight
    /\ simpObjs[simpResult[1]].distance_m = M(70)
    /\ simpObjs[simpResult[1]].duration_s = Sec(70)
    /\ simpObjs[simpResult[1]].type = Null
    /\ simpObjs[simpResult[1]].modifier = Null
    /\ simpObjs[simpResult[1]].name = Null

\* C16 as the claim states it: a turn step with a specific road name and a
\* distance of 25 m is in the output as it was given, and a turn step with
\* no name and a distance of 20 m is not in the output.
C16_NamedTurnKeptUnnamedDropped ==
    simpPc = "returned" =>
        \A i \in 1..Len(simpInput) :
            LET step == simpInput[i]
            IN  /\ ( /\ step.type = S_turn
                     /\ ~Falsy(step.name) /\ ~isGenericPathName(step.name)
                     /\ step.distance_m = M(25) ) =>
                        \E j \in 1..Len(simpResult) : simpObjs[simpResult[j]] = step
                /\ ( /\ step.type = S_turn
                     /\ Falsy(step.name)
                     /\ step.distance_m = M(20) ) =>
                        \A j \in 1..Len(simpResult) : simpObjs[simpResult[j]] # step

\* C16, for an interior step of a list of more than two steps: a turn with
\* a specific road name and 25 m is kept by the filter and is in the output
\* as it was given unless another kept step has its wording, type and
\* modifier (the merge loop then adds them up); a turn with no name and
\* 20 m is not kept by the filter, and no entry of the output equals it
\* unless a kept step has its wording, type and modifier.
C16_InteriorNamedTurnKeptUnnamedDropped ==
    (simpPc = "returned" /\ Len(simpInput) > 2) =>
        LET kept == FilterRefs(simpInput, Refs(simpInput), 1)
            keptSet == { kept[k] : k \in 1..Len(kept) }
        IN  \A i \in 2..(Len(simpInput) - 1) :
                LET step == simpInput[i]
                    alone == \A k \in keptSet \ {i} : ~SameWording(simpInput[k], step)
                IN  /\ ( /\ step.type = S_turn
                         /\ ~Falsy(step.name) /\ ~isGenericPathName(step.name)
                         /\ step.distance_m = M(25) ) =>
                            /\ i \in keptSet
                            /\ alone =>
                                 \E j \in 1..Len(simpResult) : simpObjs[simpResult[j]] = step
                    /\ ( /\ step.type = S_turn
                         /\ Falsy(step.name)
                         /\ step.distance_m = M(20) ) =>
                            /\ i \notin keptSet
                            /\ alone =>
                                 \A j \in 1..Len(simpResult) : simpObjs[simpResult[j]] # step

C16_Witness ==
    /\ simpPc = "returned"
    /\ Len(simpInput) = 4
    /\ simpInput[2].type = S_turn /\ simpInput[2].name = S_Main_Street
    /\ simpInput[2].distance_m = M(25)
    /\ simpInput[3].type = S_turn /\ simpInput[3].name = Null
    /\ simpInput[3].distance_m = M(20)
    /\ Values(simpObjs, simpResult) = <<simpInput[1], simpInput[2], simpInput[4]>>
    /\ simpInput[1] # simpInput[2]
    /\ simpInput[4] # simpInput[2]

\* C17: the filter keeps exactly the input steps, in their original order,
\* that these rules keep, the first rule that matches deciding: keep the
\* first and the last step; drop an interior depart or arrive; drop an
\* interior step under 8 m; keep an interior core maneuver with a specific
\* name and at least 20 m; drop an interior step with a generic name under
\* 140 m; drop an interior core maneuver without a specific name under
\* 45 m; drop an interior non-core step under 220 m; keep everything else.
\* The list returned for more than two steps is the merge of these steps.
C17_FilterFollowsRules ==
    simpPc = "returned" =>
        LET n == Len(simpInput)
            core == {S_depart, S_arrive, S_turn, S_fork, S_merge, S_roundabout,
                     S_rotary, S_roundabout_turn, S_end_of_road}
            named(i) == simpInput[i].name # Null /\ simpInput[i].name # <<>>
            specific(i) == named(i) /\ ~isGenericPathName(simpInput[i].name)
            generic(i) == named(i) /\ isGenericPathName(simpInput[i].name)
            meters(i) == simpInput[i].distance_m
            isCore(i) == simpInput[i].type \in core
            rule(i) ==
                IF i = 1 \/ i = n THEN "keep first and last"
                ELSE IF simpInput[i].type \in {S_depart, S_arrive} THEN "drop depart/arrive"
                ELSE IF meters(i) < M(8) THEN "drop under 8 m"
                ELSE IF isCore(i) /\ specific(i) /\ meters(i) >= M(20) THEN "keep named core"
                ELSE IF generic(i) /\ meters(i) < M(140) THEN "drop generic"
                ELSE IF isCore(i) /\ ~specific(i) /\ meters(i) < M(45) THEN "drop short core"
                ELSE IF ~isCore(i) /\ meters(i) < M(220) THEN "drop non-core"
                ELSE "keep the rest"
            keeps == { i \in 1..n :
                         rule(i) \in {"keep first and last", "keep named core", "keep the rest"} }
            kept == FilterRefs(simpInput, Refs(simpInput), 1)
            merged == MergeLoop([objs |-> simpInput, merged |-> <<>>], kept)
        IN  /\ { kept[k] : k \in 1..Len(kept) } = keeps
            /\ \A k \in 1..(Len(kept) - 1) : kept[k] < kept[k + 1]
            /\ filtered(simpInput) = Values(simpInput, kept)
            /\ n > 2 => Values(simpObjs, simpResult) = Values(merged.objs, merged.merged)

C17_Witness ==
    /\ simpPc = "returned"
    /\ Len(simpInput) = 3
    /\ simpInput[2].type = S_depart
    /\ simpInput[2].name = S_Main_Street
    /\ simpInput[2].distance_m = M(220)
    /\ Values(simpObjs, simpResult) = <<simpInput[1], simpInput[3]>>

(***************************************************************************)
(* Properties of the routing calls and of the bracket search (part_002,    *)
(* fetchDirections and GET; src/app/api/route/route.ts, GET).              *)
(***************************************************************************)

\* C11: every routing call is bounded by its own timeout: a call that the
\* provider never answers is ended by the timeout, and the request still
\* reaches a response, so a request that awaits a call is answered in the
\* end whether or not the provider answers.
C11_UnansweredCallTimesOut == (pc = "await") ~> (pc = "done")

\* C18 as the claim states it: every leg length a trial evaluates, the
\* first one included, is the midpoint (low + high) / 2 of the trial's
\* bracket, which starts at low = 0.12 x target and high = 0.45 x target.
C18_EveryLegIsMidpoint ==
    pc = "await" =>
        /\ 2 * leg = low + high
        /\ s = 0 => (low = (targetKm \div 100) * 12 /\ high = (targetKm \div 100) * 45)

\* C18: each trial starts with the bracket low = 0.12 x target, high =
\* 0.45 x target and the leg 0.22 x target; a leg evaluated while the
\* bracket is still the initial one (the first call of the trial, and the
\* calls after answers without a route) is 0.22 x target, and every leg
\* evaluated after the bracket was moved is its midpoint (low + high) / 2.
C18_LegIsFirstGuessOrMidpoint ==
    pc \in {"step", "await"} =>
        LET initialLow == (targetKm \div 100) * 12
            initialHigh == (targetKm \div 100) * 45
        IN  /\ s = 0 => (low = initialLow /\ high = initialHigh)
            /\ IF low = initialLow /\ high = initialHigh
               THEN leg = (targetKm \div 100) * 22
               ELSE 2 * leg = low + high

C18_Witness ==
    /\ pc = "await"
    /\ targetKm = M(5000)
    /\ s = 2
    /\ low # (targetKm \div 100) * 12
    /\ high # (targetKm \div 100) * 45
    /\ 2 * leg = low + high
    /\ leg # (targetKm \div 100) * 22

\* C19: after a routed result outside the tolerance the bracket moves
\* toward the target (positive target, a further iteration left): when the
\* routed distance exceeds the target, the leg evaluated becomes the new
\* high, low stays and the next leg evaluated is strictly smaller; when the
\* routed distance is under the target, the leg evaluated becomes the new
\* low, high stays and the next leg evaluated is strictly larger.
C19_BracketMovesTowardTarget ==
    [][(pc = "await") =>
        (\A route \in Answers :
            (Abs(route.distance - targetKm) > Tolerance(handler) /\ s + 1 < tuneSteps) =>
                /\ pc' = "step"
                /\ t' = t
                /\ route.distance # targetKm
                /\ route.distance > targetKm =>
                       (high' = leg /\ low' = low /\ leg' < leg /\ low' < leg')
                /\ route.distance < targetKm =>
                       (low' = leg /\ high' = high /\ leg' > leg /\ leg' < high'))]_vars

C19_Witness ==
    /\ provider = "sum13"
    /\ pc = "await"
    /\ s >= 2
    /\ low > InitialLow(targetKm)
    /\ high < InitialHigh(targetKm)
    /\ low < leg
    /\ leg < high

\* C20: within a trial no routing call is issued after a call whose routed
\* distance is within the tolerance of the target (the trial ends with that
\* call), and a trial issues at most tuneSteps = 6 calls; with a provider
\* whose routed distance is 1.3 x the sum of the requested leg lengths a
\* trial ends only with a routed distance within the tolerance or with its
\* sixth call, and goes on to the next call otherwise.
C20_TrialStopsWithinToleranceOrAfterSix ==
    /\ [](pc \in {"step", "await"} => (s < tuneSteps /\ calls <= t * tuneSteps + s + 1))
    /\ [](pc = "trial" => calls <= t * tuneSteps)
    /\ [][(pc = "await") =>
            (\A route \in Answers :
                /\ Abs(route.distance - targetKm) <= Tolerance(handler) =>
                       (pc' = "trial" /\ t' = t + 1 /\ inflight' = <<>>)
                /\ pc' = "trial" =>
                       (Abs(route.distance - targetKm) <= Tolerance(handler) \/ s + 1 = tuneSteps)
                /\ (Abs(route.distance - targetKm) > Tolerance(handler) /\ s + 1 < tuneSteps) =>
                       (pc' = "step" /\ s' = s + 1 /\ t' = t))]_vars

C20_Witness ==
    /\ provider = "sum13"
    /\ pc = "await"
    /\ s = tuneSteps - 1
    /\ t >= 1
    /\ calls < t * tuneSteps + tuneSteps
    /\ Abs(StubRoute13(inflight).distance - targetKm) > Tolerance(handler)

(***************************************************************************)
(* Properties of the scorer's helpers (part_002, segmentKey,               *)
(* getRouteOverlapPenaltyKm, getRouteSmoothnessPenaltyKm) and of the       *)
(* wording (formatInstruction).                                            *)
(***************************************************************************)

\* C21: the overlap penalty is 0 for every polyline of fewer than 3
\* coordinates and for every polyline in which no key occurs twice among
\* its segments of 5 m or more, and it is strictly positive for every
\* polyline that traverses a segment of at least 5 m again, in either
\* direction, such as the out-and-back A, B, A.
C21_OverlapPenaltyZeroOrPositive ==
    (fn = "overlap" /\ fnPc = "returned") =>
        LET counted == { i \in 2..Len(fnArg) : distanceMeters(fnArg[i - 1], fnArg[i]) >= 5 }
            key(i) == segmentKey(fnArg[i - 1], fnArg[i])
            ends(i) == {fnArg[i - 1], fnArg[i]}
        IN  /\ Len(fnArg) < 3 => fnResult = 0
            /\ (\A i, j \in counted : i # j => key(i) # key(j)) => fnResult = 0
            /\ (\E i, j \in counted : i # j /\ ends(i) = ends(j)) => fnResult > 0

C21_Witness ==
    /\ fn = "overlap"
    /\ fnPc = "returned"
    /\ fnArg = << <<0, 0>>, <<100, 0>>, <<0, 0>> >>
    /\ fnResult = M(600)

\* C22: the segment key does not depend on the orientation: the key of the
\* segment from a to b is the key of the segment from b to a, so a polyline
\* that walks a segment of 5 m or more back has a positive overlap.
C22_SegmentKeyIgnoresOrientation ==
    /\ (fn = "key" /\ fnPc = "returned") => fnResult = segmentKey(fnArg[2], fnArg[1])
    /\ (fn = "overlap" /\ fnPc = "returned") =>
          \A i \in 2..(Len(fnArg) - 1) :
              ( /\ fnArg[i + 1] = fnArg[i - 1]
                /\ distanceMeters(fnArg[i - 1], fnArg[i]) >= 5 ) => fnResult > 0

C22_Witness ==
    /\ fn = "key"
    /\ fnPc = "returned"
    /\ fnArg = << <<100, 100>>, <<0, 0>> >>
    /\ fnResult = << <<0, 0>>, <<100, 100>> >>

\* C23: the smoothness penalty is shortTurnCount x 0.12 + totalTurnCount x
\* 0.015, where totalTurnCount counts the steps whose type contains 'turn'
\* or is fork or roundabout and shortTurnCount those of them under 45 m (a
\* step without a distance counts as 0 m); it does not decrease when a step
\* is added to the route, and it grows by at least 0.015 when the step added
\* is turn-like.
C23_SmoothnessPenaltyFormula ==
    (fn = "smoothness" /\ fnPc = "returned") =>
        LET type(st) == IF "maneuver" \in DOMAIN st /\ "type" \in DOMAIN st.maneuver
                        THEN st.maneuver.type ELSE <<>>
            meters(st) == IF "distance" \in DOMAIN st THEN st.distance ELSE 0
            turnLike(st) == includes(type(st), S_turn) \/ type(st) \in {S_fork, S_roundabout}
            total == Cardinality({ i \in 1..Len(fnArg) : turnLike(fnArg[i]) })
            short == Cardinality({ i \in 1..Len(fnArg) :
                                     turnLike(fnArg[i]) /\ meters(fnArg[i]) < M(45) })
        IN  /\ fnResult = short * M(120) + total * M(15)
            /\ \A st \in ScoredSteps :
                /\ SmoothnessPenalty(Append(fnArg, st)) >= fnResult
                /\ SmoothnessPenalty(<<st>> \o fnArg) >= fnResult
                /\ turnLike(st) => SmoothnessPenalty(Append(fnArg, st)) >= fnResult + M(15)

C23_Witness ==
    /\ fn = "smoothness"
    /\ fnPc = "returned"
    /\ Len(fnArg) = 3
    /\ Field(Field(fnArg[1], "maneuver", [none |-> TRUE]), "type", <<>>) = S_roundabout_turn
    /\ Field(Field(fnArg[2], "maneuver", [none |-> TRUE]), "type", <<>>) = S_fork
    /\ Field(Field(fnArg[3], "maneuver", [none |-> TRUE]), "type", <<>>) = S_rotary
    /\ fnResult = M(120) + M(15) + M(15)

\* C24 as stated: a step of type arrive gets the fixed arrival sentence; every
\* step of type turn, fork, merge or depart with a specific name gets the
\* templated phrase of its type, whatever its modifier; a step whose name is
\* generic or missing gets the provider's text as a sentence, the name not
\* being added to it.
C24_NamedManeuverGetsTemplate ==
    (fn = "format" /\ fnPc = "returned") =>
        LET man == IF "maneuver" \in DOMAIN fnArg THEN fnArg.maneuver ELSE [none |-> TRUE]
            type == IF "type" \in DOMAIN man THEN man.type ELSE <<>>
            modifier == IF "modifier" \in DOMAIN man THEN man.modifier ELSE <<>>
            raw == IF "instruction" \in DOMAIN man THEN trim(man.instruction) ELSE <<>>
            name == IF "name" \in DOMAIN fnArg THEN trim(fnArg.name) ELSE <<>>
            generic == \E k \in 1..Len(genericTerms) :
                          includes(toLowerCase(name), genericTerms[k])
            specific == name # <<>> /\ ~generic
        IN  /\ type = S_arrive => fnResult = S_arrived
            /\ (specific /\ type = S_turn) =>
                  fnResult = S_Turn_ \o modifier \o S__onto_ \o name \o S_dot
            /\ (specific /\ type \in {S_fork, S_merge}) =>
                  fnResult = S_Keep_ \o modifier \o S__onto_ \o name \o S_dot
            /\ (specific /\ type = S_depart) =>
                  fnResult = S_Head_ \o modifier \o S__on_ \o name \o S_dot
            /\ (~specific /\ type # S_arrive) =>
                  fnResult = toSentence(IF raw # <<>> THEN raw ELSE S_Continue)

\* C24: a step of type arrive gets the fixed arrival sentence whatever its
\* name and modifier; a step of type turn, fork, merge or depart with a
\* specific name and a non-empty modifier gets the templated phrase of its
\* type; a step whose name is generic or missing gets the provider's text as
\* a sentence ('Continue.' when there is none), the name not being added.
C24_NamedManeuverWithModifierGetsTemplate ==
    (fn = "format" /\ fnPc = "returned") =>
        LET man == IF "maneuver" \in DOMAIN fnArg THEN fnArg.maneuver ELSE [none |-> TRUE]
            type == IF "type" \in DOMAIN man THEN man.type ELSE <<>>
            modifier == IF "modifier" \in DOMAIN man THEN man.modifier ELSE <<>>
            raw == IF "instruction" \in DOMAIN man THEN trim(man.instruction) ELSE <<>>
            name == IF "name" \in DOMAIN fnArg THEN trim(fnArg.name) ELSE <<>>
            generic == \E k \in 1..Len(genericTerms) :
                          includes(toLowerCase(name), genericTerms[k])
            specific == name # <<>> /\ ~generic
        IN  /\ type = S_arrive => fnResult = S_arrived
            /\ (specific /\ modifier # <<>> /\ type = S_turn) =>
                  fnResult = S_Turn_ \o modifier \o S__onto_ \o name \o S_dot
            /\ (specific /\ modifier # <<>> /\ type \in {S_fork, S_merge}) =>
                  fnResult = S_Keep_ \o modifier \o S__onto_ \o name \o S_dot
            /\ (specific /\ modifier # <<>> /\ type = S_depart) =>
                  fnResult = S_Head_ \o modifier \o S__on_ \o name \o S_dot
            /\ (~specific /\ type # S_arrive) =>
                  fnResult = toSentence(IF raw # <<>> THEN raw ELSE S_Continue)

C24_Witness ==
    /\ fn = "format"
    /\ fnPc = "returned"
    /\ fnArg = Step(<<" ">> \o S_Main_Street, 100, S_fork, S_left, S_Turn_left)
    /\ fnResult = S_Keep_ \o S_left \o S__onto_ \o S_Main_Street \o S_dot

(***************************************************************************)
(* Further properties of the instruction simplifier.                       *)
(***************************************************************************)
\* C25 as stated: whenever the simplifier is given three consecutive turns of
\* alternating direction, each of at most 70 m and with a generic or absent
\* name, it returns two steps: 'Continue straight.' for the first two and
\* the third turn as an entry of its own.
C25_ThreeAlternatingTurnsGiveTwo ==
    ( /\ simpPc = "returned"
      /\ Len(simpInput) = 3
      /\ isOppositeZigZag(simpInput[1], simpInput[2])
      /\ isOppositeZigZag(simpInput[2], simpInput[3]) ) =>
        /\ Len(simpResult) = 2
        /\ simpObjs[simpResult[1]].instruction = S_Continue_straight
        /\ simpObjs[simpResult[2]] = simpInput[3]

\* C25, for the steps the filter keeps: when the merge loop has folded a
\* kept turn into the previous entry by the zig-zag rule, that entry has type
\* null, and a turn kept next is not folded into it: it is emitted as a new
\* entry, as it was given, and the folded entry stays as it is.  So three
\* alternating turns kept by the filter, each pair a zig-zag, are returned
\* as two steps.
C25_FoldedEntryTakesNoFurtherTurn ==
    (simpPc = "returned" /\ Len(simpInput) > 2) =>
        LET kept == FilterRefs(simpInput, Refs(simpInput), 1)
            after(k) == MergeLoop([objs |-> simpInput, merged |-> <<>>], SubSeq(kept, 1, k))
            lastRef(k) == after(k).merged[Len(after(k).merged)]
            entry(k) == after(k).objs[lastRef(k)]
        IN  /\ \A i \in 1..(Len(kept) - 2) :
                LET second == simpInput[kept[i + 1]]
                    third == simpInput[kept[i + 2]]
                IN  ( /\ ~SameWording(entry(i), second)
                      /\ isOppositeZigZag(entry(i), second)
                      /\ third.type = S_turn ) =>
                        /\ Len(after(i + 1).merged) = Len(after(i).merged)
                        /\ entry(i + 1).type = Null
                        /\ Len(after(i + 2).merged) = Len(after(i + 1).merged) + 1
                        /\ entry(i + 2) = third
                        /\ after(i + 2).objs[lastRef(i + 1)] = entry(i + 1)
            /\ ( /\ Len(kept) = 3
                 /\ isOppositeZigZag(simpInput[kept[1]], simpInput[kept[2]])
                 /\ isOppositeZigZag(simpInput[kept[2]], simpInput[kept[3]]) ) =>
                    /\ Len(simpResult) = 2
                    /\ simpObjs[simpResult[1]].instruction = S_Continue_straight
                    /\ simpObjs[simpResult[2]] = simpInput[kept[3]]

C25_Witness ==
    /\ simpPc = "returned"
    /\ Len(simpInput) = 3
    /\ simpInput[1].type = S_turn /\ simpInput[1].modifier = S_left
    /\ simpInput[1].distance_m = M(20) /\ simpInput[1].name = Null
    /\ simpInput[2].type = S_turn /\ simpInput[2].modifier = S_right
    /\ simpInput[2].distance_m = M(45) /\ simpInput[2].name = Null
    /\ simpInput[3].type = S_turn /\ simpInput[3].modifier = S_left
    /\ simpInput[3].distance_m = M(50) /\ simpInput[3].name = Null
    /\ Len(simpResult) = 2
    /\ simpObjs[simpResult[1]].instruction = S_Continue_straight
    /\ simpObjs[simpResult[1]].distance_m = M(65)
    /\ simpObjs[simpResult[1]].type = Null
    /\ simpObjs[simpResult[2]].instruction = S_Turn_left \o S_dot
    /\ simpObjs[simpResult[2]].distance_m = M(50)

\* C28: for every list of more than 2 steps given to the simplifier, the
\* distances of the returned steps add up to the distances of the steps the
\* filter keeps, and so do the durations; the returned list is not empty and
\* is not longer than the list of kept steps.
C28_MergeConservesTotals ==
    (simpPc = "returned" /\ Len(simpInput) > 2) =>
        LET kept == FilterRefs(simpInput, Refs(simpInput), 1)
            keptMeters[k \in 0..Len(kept)] ==
                IF k = 0 THEN 0 ELSE keptMeters[k - 1] + simpInput[kept[k]].distance_m
            keptTicks[k \in 0..Len(kept)] ==
                IF k = 0 THEN 0 ELSE keptTicks[k - 1] + simpInput[kept[k]].duration_s
            outMeters[k \in 0..Len(simpResult)] ==
                IF k = 0 THEN 0 ELSE outMeters[k - 1] + simpObjs[simpResult[k]].distance_m
            outTicks[k \in 0..Len(simpResult)] ==
                IF k = 0 THEN 0 ELSE outTicks[k - 1] + simpObjs[simpResult[k]].duration_s
        IN  /\ outMeters[Len(simpResult)] = keptMeters[Len(kept)]
            /\ outTicks[Len(simpResult)] = keptTicks[Len(kept)]
            /\ Len(simpResult) >= 1
            /\ Len(simpResult) <= Len(kept)

C28_Witness ==
    /\ simpPc = "returned"
    /\ Len(simpInput) = 4
    /\ Len(FilterRefs(simpInput, Refs(simpInput), 1)) = 3
    /\ simpInput[2].name = S_Seaside_Path
    /\ Len(simpResult) = 2
    /\ simpObjs[simpResult[1]].instruction = S_Continue_straight
    /\ simpObjs[simpResult[1]].distance_m = M(65)
    /\ simpObjs[simpResult[1]].duration_s = Sec(65)
    /\ simpObjs[simpResult[2]].distance_m = M(50)

\* C29: an interior step whose type is a core maneuver other than depart and
\* arrive and whose name is specific is kept by the filter exactly when it
\* is at least 8 m long; and the steps the filter keeps are those the
\* filter's rules keep with the rule 'keep a named core maneuver of at least
\* 20 m' left out, so that rule decides for no step.
C29_NamedCoreKeptFrom8Metres ==
    (simpPc = "returned" /\ Len(simpInput) > 2) =>
        LET n == Len(simpInput)
            core == {S_depart, S_arrive, S_turn, S_fork, S_merge, S_roundabout,
                     S_rotary, S_roundabout_turn, S_end_of_road}
            named(i) == simpInput[i].name # Null /\ simpInput[i].name # <<>>
            specific(i) == named(i) /\ ~isGenericPathName(simpInput[i].name)
            generic(i) == named(i) /\ isGenericPathName(simpInput[i].name)
            meters(i) == simpInput[i].distance_m
            isCore(i) == simpInput[i].type \in core
            kept == FilterRefs(simpInput, Refs(simpInput), 1)
            isKept(i) == \E k \in 1..Len(kept) : kept[k] = i
            withoutNamedRule(i) ==
                /\ simpInput[i].type \notin {S_depart, S_arrive}
                /\ meters(i) >= M(8)
                /\ ~(generic(i) /\ meters(i) < M(140))
                /\ ~(isCore(i) /\ ~specific(i) /\ meters(i) < M(45))
                /\ ~(~isCore(i) /\ meters(i) < M(220))
        IN  \A i \in 2..(n - 1) :
                /\ (specific(i) /\ simpInput[i].type \in core \ {S_depart, S_arrive}) =>
                      (isKept(i) <=> meters(i) >= M(8))
                /\ isKept(i) <=> withoutNamedRule(i)

C29_Witness ==
    /\ simpPc = "returned"
    /\ Len(simpInput) = 3
    /\ simpInput[2].type = S_end_of_road
    /\ simpInput[2].name = S_Main_Street
    /\ simpInput[2].distance_m = M(19)
    /\ FilterRefs(simpInput, Refs(simpInput), 1) = <<1, 2, 3>>
    /\ \E j \in 1..Len(simpResult) : simpObjs[simpResult[j]].type = S_end_of_road

(***************************************************************************)
(* Properties of the optimizer under cancellation, of the bracket and of   *)
(* the map UI.                                                             *)
(***************************************************************************)
\* C26: once the client has dropped the connection, the handler starts no
\* routing call: no step takes it from the top of the inner loop to an
\* awaited call.  The call in flight when the client went away may complete.
C26_NoCallAfterCancellation ==
    [][cancelled => ~(pc = "step" /\ pc' = "await")]_vars

\* C27: for a positive target, whenever a trial is at the top of its inner
\* loop or awaits a call, 0.12 x target <= low <= leg <= high <= 0.45 x
\* target; from one iteration of a trial to the next low does not decrease
\* and high does not increase; after a route outside the tolerance that is
\* followed by a further iteration the width high - low is strictly smaller
\* and the leg is the midpoint; after an answer without a route the bracket
\* and the leg are as before; and every trial starts with low = 0.12 x
\* target, high = 0.45 x target and leg = 0.22 x target.
C27_BracketInvariants ==
    [][(targetKm' > 0) =>
        /\ (pc' \in {"step", "await"}) =>
              /\ (targetKm' \div 100) * 12 <= low'
              /\ low' <= leg'
              /\ leg' <= high'
              /\ high' <= (targetKm' \div 100) * 45
        /\ (pc = "await" /\ pc' = "step") =>
              /\ t' = t
              /\ low' >= low
              /\ high' <= high
              /\ \A route \in Answers :
                    ProcessRoute(route) =>
                        /\ Abs(route.distance - targetKm) > Tolerance(handler)
                        /\ high' - low' < high - low
                        /\ leg' = (low' + high') \div 2
                        /\ low' < leg' /\ leg' < high'
              /\ DirectionsNoRoute => (low' = low /\ high' = high /\ leg' = leg)
        /\ (pc = "trial" /\ pc' = "step") =>
              /\ low' = (targetKm \div 100) * 12
              /\ high' = (targetKm \div 100) * 45
              /\ leg' = (targetKm \div 100) * 22]_vars

C27_Witness ==
    /\ targetKm > 0
    /\ pc = "step"
    /\ t >= 1
    /\ s >= 3
    /\ trialFailed
    /\ (targetKm \div 100) * 12 < low
    /\ low < leg
    /\ leg < high
    /\ high < (targetKm \div 100) * 45

\* C30: a generateRoute that sends a request sets loading and clears
\* routeError, and leaves the route shown as it is; while the request is
\* under way loading stays set and the route stays; when the request ends,
\* with a route, with an error status or with an exception, loading is
\* reset; after a response with a route the route shown is that response
\* and routeError is still null; after an error status or an exception
\* routeError is set and the route shown is the one shown before.
C30_LoadingAndErrorFollowRequest ==
    [][/\ (pc \in {"idle", "settled"} /\ pc' = "recv") =>
              (loading' /\ routeError' = Null /\ uiRoute' = uiRoute)
       /\ (pc' \in {"recv", "trial", "step", "await", "done"}) =>
              (loading' /\ routeError' = Null /\ uiRoute' = uiRoute)
       /\ (pc # "settled" /\ pc' = "settled") =>
              /\ ~loading'
              /\ generateRouteSettled =>
                    IF response.status = 200
                    THEN uiRoute' = response /\ routeError' = Null
                    ELSE routeError' = <<response.error>> /\ uiRoute' = uiRoute
              /\ generateRouteThrows =>
                    (routeError' # Null /\ uiRoute' = uiRoute)
              /\ generateRouteSettled \/ generateRouteThrows]_vars

C30_Witness ==
    /\ pc = "settled"
    /\ ~loading
    /\ token
    /\ "status" \in DOMAIN response
    /\ response.status = 200
    /\ uiRoute # NullRec
    /\ uiRoute # response
    /\ routeError = S_Could_not_generate_route

====
